---- MODULE Spec2Model ----
(***************************************************************************)
(* Model of the riichi mahjong scoring engine of src/lib/mahjong.ts:       *)
(* isWinningHand, detectYaku, calculateFu, calculateFinalScore and the     *)
(* orchestration entry point calculateScore.                               *)
(*                                                                         *)
(* A tile is represented by its TILE_ORDER number: 1..9 are 1m..9m,        *)
(* 11..19 are 1p..9p, 21..29 are 1s..9s and 31..37 are the honors          *)
(* 東 南 西 北 白 發 中.  A hand is a sequence of tiles, a meld a record     *)
(* [type, tiles].                                                          *)
(***************************************************************************)
EXTENDS Integers, Sequences, FiniteSets, TLC

VARIABLES
    pc,           \* position of the call in progress
    hand,         \* the tile list given to the function
    winningTile,  \* the winning tile argument (NoTile when omitted)
    options,      \* the AgariOptions argument (melds included)
    hanArg,       \* calculateFinalScore: han argument
    fuArg,        \* calculateFinalScore: fu argument
    isOyaArg,     \* calculateFinalScore: isOya argument
    win,          \* result of isWinningHand
    yaku,         \* result of detectYaku
    fu,           \* result of calculateFu
    score,        \* result of calculateFinalScore
    result,       \* value returned by calculateScore
    handShapes,   \* result of buildHandShapes
    memos,        \* the Maps of generateMeldCombinations, one per top-level search
    stack,        \* the call stack of a search run call by call
    pageMelds,    \* calculator page: the confirmed melds (melds)
    meldInput,    \* calculator page: the tiles of the meld being entered
    meldType,     \* calculator page: the type of the meld being entered
    tileSelectMode, \* calculator page: where a clicked tile goes
    error,        \* calculator page: the message shown
    redHandFlags,       \* calculator page: which hand tiles are red fives
    redMeldInputFlags,  \* calculator page: which meld-input tiles are red fives
    redMeldFlags,       \* calculator page: which tiles of each meld are red fives
    redWinningFlag      \* calculator page: whether the winning tile is a red five

vars == <<pc, hand, winningTile, options, hanArg, fuArg, isOyaArg,
          win, yaku, fu, score, result, handShapes, memos, stack,
          pageMelds, meldInput, meldType, tileSelectMode, error,
          redHandFlags, redMeldInputFlags, redMeldFlags, redWinningFlag>>

\* the variables of the calculator page
pageVars == <<pageMelds, meldInput, meldType, tileSelectMode, error,
              redHandFlags, redMeldInputFlags, redMeldFlags, redWinningFlag>>

(***************************************************************************)
(* Bounds of the explored inputs.                                          *)
(***************************************************************************)
FreeKinds == 5      \* number of tile kinds of the freely chosen tiles
MaxHan == 39        \* largest han given to calculateFinalScore
MaxFuTens == 11     \* largest fu given to calculateFinalScore, in tens

(***************************************************************************)
(* Tile & meld model.                                                      *)
(***************************************************************************)
NoTile == 0

\* copies of one tile in a set
MaxCopies == 4

\* melds of a hand: requiredMentsu = 4 - meldCount
MaxMelds == 4

TILES == [manzu |-> <<1, 2, 3, 4, 5, 6, 7, 8, 9>>,
          pinzu |-> <<11, 12, 13, 14, 15, 16, 17, 18, 19>>,
          souzu |-> <<21, 22, 23, 24, 25, 26, 27, 28, 29>>,
          jihai |-> <<31, 32, 33, 34, 35, 36, 37>>]

AllTiles == (1..9) \cup (11..19) \cup (21..29) \cup (31..37)

TILE_ORDER == [t \in AllTiles |-> t]

TON == 31
NAN == 32
SHA == 33
PEI == 34
HAKU == 35
HATSU == 36
CHUN == 37

BAKAZE_MAP == [ton |-> TON, nan |-> NAN, sha |-> SHA, pei |-> PEI]
JIKAZE_MAP == [ton |-> TON, nan |-> NAN, sha |-> SHA, pei |-> PEI]


\* a two-character string that is no tile code ('xx'): parseInt of its first
\* character is NaN, which reads as 0 below, and it has no TILE_ORDER entry
XX == 40

\* tile.length === 2 for the suited tiles and for 'xx', 1 for the honors
tileLength(t) == IF t \in 1..29 \/ t = XX THEN 2 ELSE 1

\* parseTile: [num, suit] of a suited tile, [null, null] (here <<0, 0>>) else
parseTile(t) == IF tileLength(t) = 2 THEN <<t % 10, (t \div 10) + 1>> ELSE <<0, 0>>

\* the template string `${num}${suit}`: a tile only for num in 1..9
mkTile(num, suit) == IF num \in 1..9 /\ suit \in 1..3 THEN (suit - 1) * 10 + num ELSE NoTile

RECURSIVE SeqSum(_)
SeqSum(s) == IF s = <<>> THEN 0 ELSE Head(s) + SeqSum(Tail(s))

Min(a, b) == IF a < b THEN a ELSE b

Range(s) == {s[i] : i \in DOMAIN s}

\* insertion of one tile into a list sorted by TILE_ORDER
RECURSIVE insertSorted(_, _)
insertSorted(t, s) ==
    IF s = <<>> THEN <<t>>
    ELSE IF TILE_ORDER[t] < TILE_ORDER[Head(s)] THEN <<t>> \o s
    ELSE <<Head(s)>> \o insertSorted(t, Tail(s))

RECURSIVE sortHand(_)
sortHand(tiles) ==
    IF tiles = <<>> THEN <<>> ELSE insertSorted(Head(tiles), sortHand(Tail(tiles)))

\* countTiles: a record keyed by the tiles that occur, with their counts
countTiles(tiles) ==
    [t \in Range(tiles) |-> Cardinality({i \in DOMAIN tiles : tiles[i] = t})]

\* counts[tile] || 0: an absent key reads as undefined, which fails every
\* comparison the code makes (>= 1, > 0, === 2, ...)
cnt(counts, t) == IF t \in DOMAIN counts THEN counts[t] ELSE 0

dec(counts, t, n) == [counts EXCEPT ![t] = @ - n]

isYaochuhai(t) ==
    IF tileLength(t) = 1 THEN TRUE ELSE parseTile(t)[1] = 1 \/ parseTile(t)[1] = 9

YAOCHUHAI == {1, 9, 11, 19, 21, 29, 31, 32, 33, 34, 35, 36, 37}

(***************************************************************************)
(* isWinningHand and its boolean search.                                   *)
(***************************************************************************)
RECURSIVE checkMentsu(_, _)
checkMentsu(tiles, count) ==
    IF count = 0 THEN \A t \in DOMAIN tiles : tiles[t] = 0
    ELSE
        \/ \E t \in DOMAIN tiles :
              /\ tiles[t] >= 3
              /\ checkMentsu(dec(tiles, t, 3), count - 1)
        \/ \E t \in DOMAIN tiles :
              /\ tiles[t] > 0
              /\ LET num == parseTile(t)[1]
                     suit == parseTile(t)[2]
                     tile2 == mkTile(num + 1, suit)
                     tile3 == mkTile(num + 2, suit)
                 IN  /\ num # 0 /\ num <= 7
                     /\ cnt(tiles, tile2) > 0 /\ cnt(tiles, tile3) > 0
                     /\ checkMentsu(dec(dec(dec(tiles, t, 1), tile2, 1), tile3, 1),
                                    count - 1)

\* a pair search that takes only tiles held exactly twice
checkNormalWinningHand_ExactPair(tileCounts, requiredMentsu) ==
    \E t \in DOMAIN tileCounts :
        /\ tileCounts[t] = 2
        /\ checkMentsu(dec(tileCounts, t, 2), requiredMentsu)

checkNormalWinningHand(tileCounts, requiredMentsu) ==
    \E t \in DOMAIN tileCounts :
        /\ tileCounts[t] >= 2
        /\ checkMentsu(dec(tileCounts, t, 2), requiredMentsu)

isWinningHand(h, melds) ==
    LET tileCounts == countTiles(h)
        meldCount == Len(melds)
        hasMelds == meldCount > 0
        pairs == {t \in DOMAIN tileCounts : tileCounts[t] = 2}
        hasAllYaochuhai == \A t \in YAOCHUHAI : cnt(tileCounts, t) >= 1
    IN  IF ~hasMelds /\ Cardinality(pairs) = 7 THEN TRUE
        ELSE IF ~hasMelds /\ hasAllYaochuhai THEN TRUE
        ELSE checkNormalWinningHand(tileCounts, 4 - meldCount)


(***************************************************************************)
(* Decomposition engine.  The memo map of generateMeldCombinations only    *)
(* stores and returns the list computed for a key, so the operator is the  *)
(* recursion it caches.                                                    *)
(***************************************************************************)
MinTile(S) == CHOOSE x \in S : \A y \in S : TILE_ORDER[x] <= TILE_ORDER[y]

Mentsu(type, tiles) == [type |-> type, tiles |-> tiles]

\* results.push([meld, ...melds]) for every melds of the recursive call
PrependAll(meld, lists) == [i \in 1..Len(lists) |-> <<meld>> \o lists[i]]

\* an enumeration that takes a triplet from two copies of the target tile
RECURSIVE generateMeldCombinations_LooseTriplet(_)
generateMeldCombinations_LooseTriplet(counts) ==
    LET present == {t \in DOMAIN counts : counts[t] > 0}
    IN  IF present = {} THEN << <<>> >>
        ELSE
            LET targetTile == MinTile(present)
                num == parseTile(targetTile)[1]
                suit == parseTile(targetTile)[2]
                tile2 == mkTile(num + 1, suit)
                tile3 == mkTile(num + 2, suit)
                koutsu ==
                    IF counts[targetTile] >= 2
                    THEN PrependAll(Mentsu("koutsu", <<targetTile, targetTile, targetTile>>),
                                    generateMeldCombinations_LooseTriplet(
                                        dec(counts, targetTile, 3)))
                    ELSE <<>>
                shuntsu ==
                    IF num # 0 /\ suit # 0 /\ num <= 7
                       /\ cnt(counts, tile2) > 0 /\ cnt(counts, tile3) > 0
                    THEN PrependAll(Mentsu("shuntsu", <<targetTile, tile2, tile3>>),
                                    generateMeldCombinations_LooseTriplet(
                                        dec(dec(dec(counts, targetTile, 1), tile2, 1), tile3, 1)))
                    ELSE <<>>
            IN  koutsu \o shuntsu

RECURSIVE generateMeldCombinations(_)
generateMeldCombinations(counts) ==
    LET present == {t \in DOMAIN counts : counts[t] > 0}
    IN  IF present = {} THEN << <<>> >>
        ELSE
            LET targetTile == MinTile(present)
                num == parseTile(targetTile)[1]
                suit == parseTile(targetTile)[2]
                tile2 == mkTile(num + 1, suit)
                tile3 == mkTile(num + 2, suit)
                koutsu ==
                    IF counts[targetTile] >= 3
                    THEN PrependAll(Mentsu("koutsu", <<targetTile, targetTile, targetTile>>),
                                    generateMeldCombinations(dec(counts, targetTile, 3)))
                    ELSE <<>>
                shuntsu ==
                    IF num # 0 /\ suit # 0 /\ num <= 7
                       /\ cnt(counts, tile2) > 0 /\ cnt(counts, tile3) > 0
                    THEN PrependAll(Mentsu("shuntsu", <<targetTile, tile2, tile3>>),
                                    generateMeldCombinations(
                                        dec(dec(dec(counts, targetTile, 1), tile2, 1), tile3, 1)))
                    ELSE <<>>
            IN  koutsu \o shuntsu

\* serializeHandShape: the pair and the melds as an unordered collection of
\* (type, sorted tiles); two shapes have one key iff these agree
serializeHandShape(shape) ==
    LET keys == [i \in DOMAIN shape.melds |->
                    <<shape.melds[i].type, sortHand(shape.melds[i].tiles)>>]
    IN  <<shape.pair,
          [k \in Range(keys) |-> Cardinality({i \in DOMAIN keys : keys[i] = k})]>>

\* Object.keys(counts): the tiles in the order of their first occurrence
RECURSIVE keysOf(_)
keysOf(h) ==
    IF h = <<>> THEN <<>>
    ELSE LET rest == keysOf(SubSeq(h, 1, Len(h) - 1))
             last == h[Len(h)]
         IN  IF last \in Range(rest) THEN rest ELSE Append(rest, last)

\* a push of every candidate, seen or not
pushUnseen_All(acc, candidates) ==
    [shapes |-> acc.shapes \o candidates, seen |-> acc.seen]

\* acc is [shapes, seen]: a candidate is pushed unless its key was seen
RECURSIVE pushUnseen(_, _)
pushUnseen(acc, candidates) ==
    IF candidates = <<>> THEN acc
    ELSE LET key == serializeHandShape(Head(candidates))
         IN  IF key \in acc.seen
             THEN pushUnseen(acc, Tail(candidates))
             ELSE pushUnseen([shapes |-> Append(acc.shapes, Head(candidates)),
                              seen |-> acc.seen \cup {key}],
                             Tail(candidates))

RECURSIVE shapesForPairs(_, _, _)
shapesForPairs(counts, keys, acc) ==
    IF keys = <<>> THEN acc
    ELSE LET tile == Head(keys)
         IN  IF counts[tile] >= 2
             THEN LET meldOptions == generateMeldCombinations(dec(counts, tile, 2))
                      candidates == [i \in 1..Len(meldOptions) |->
                                        [pair |-> tile, melds |-> meldOptions[i]]]
                  IN  shapesForPairs(counts, Tail(keys), pushUnseen(acc, candidates))
             ELSE shapesForPairs(counts, Tail(keys), acc)

\* a buildHandShapes that stops after the first tile held twice
buildHandShapes_FirstPair(h) ==
    LET counts == countTiles(h)
        keys == SelectSeq(keysOf(h), LAMBDA t : counts[t] >= 2)
    IN  shapesForPairs(counts, SubSeq(keys, 1, Min(1, Len(keys))),
                       [shapes |-> <<>>, seen |-> {}]).shapes

buildHandShapes(h) ==
    shapesForPairs(countTiles(h), keysOf(h), [shapes |-> <<>>, seen |-> {}]).shapes

getMentsuPatterns(h) ==
    LET shapes == buildHandShapes(h)
    IN  [i \in 1..Len(shapes) |->
            [jantou |-> shapes[i].pair,
             mentsu |-> [j \in 1..Len(shapes[i].melds) |-> shapes[i].melds[j].tiles]]]

isShuntsu(tiles) ==
    IF Len(tiles) # 3 THEN FALSE
    ELSE LET sorted == sortHand(tiles)
             p1 == parseTile(sorted[1])
             p2 == parseTile(sorted[2])
             p3 == parseTile(sorted[3])
         IN  IF p1[1] = 0 \/ p2[1] = 0 \/ p3[1] = 0 THEN FALSE
             ELSE IF p1[2] # p2[2] \/ p2[2] # p3[2] THEN FALSE
             ELSE p2[1] = p1[1] + 1 /\ p3[1] = p2[1] + 1

(***************************************************************************)
(* Wait shape of one decomposition.                                        *)
(***************************************************************************)
isRyanmenWaitForPattern(pattern, wt) ==
    IF pattern.jantou = wt THEN FALSE
    ELSE
        LET found == {i \in DOMAIN pattern.mentsu : wt \in Range(pattern.mentsu[i])}
        IN  IF found = {} THEN FALSE
            ELSE
                \* Array.find: the first group that includes the winning tile
                LET targetMentsu == pattern.mentsu[CHOOSE i \in found : \A j \in found : i <= j]
                IN  IF Len(targetMentsu) # 3 THEN FALSE
                    ELSE IF ~isShuntsu(targetMentsu) THEN FALSE
                    ELSE
                        LET sorted == sortHand(targetMentsu)
                            isLowest == wt = sorted[1]
                            isHighest == wt = sorted[3]
                            firstNum == parseTile(sorted[1])[1]
                            thirdNum == parseTile(sorted[3])[1]
                        IN  IF ~isLowest /\ ~isHighest THEN FALSE
                            ELSE IF firstNum = 0 \/ thirdNum = 0 THEN FALSE
                            ELSE IF (isHighest /\ firstNum = 1) \/ (isLowest /\ thirdNum = 9)
                                 THEN FALSE
                            ELSE TRUE

\* patterns.some(pattern => isRyanmenWaitForPattern(pattern, winningTile))
someRyanmenWait(patterns, wt) ==
    \E i \in DOMAIN patterns : isRyanmenWaitForPattern(patterns[i], wt)

\* targetPattern is <<>> when the optional argument is omitted, <<p>> else
isRyanmenWait(h, wt, targetPattern) ==
    someRyanmenWait(IF targetPattern # <<>> THEN targetPattern ELSE getMentsuPatterns(h), wt)

(***************************************************************************)
(* Yaku predicates.  A yaku is the record [name, han]; the names are the   *)
(* romanised forms of the names the code emits.                            *)
(***************************************************************************)
\* MAP[wind] for a wind name, undefined (here NoTile) for anything else
windTile(map, wind) == IF wind \in DOMAIN map THEN map[wind] ELSE NoTile

RECURSIVE meldTiles(_)
meldTiles(melds) ==
    IF melds = <<>> THEN <<>> ELSE Head(melds).tiles \o meldTiles(Tail(melds))

\* [...hand] followed by the tiles of every meld
withMeldTiles(h, melds) == h \o meldTiles(melds)

Yaku(name, han) == [name |-> name, han |-> han]

isTanyao(h, melds) ==
    LET allTiles == withMeldTiles(h, melds)
    IN  \A i \in DOMAIN allTiles :
            IF tileLength(allTiles[i]) = 2
            THEN parseTile(allTiles[i])[1] >= 2 /\ parseTile(allTiles[i])[1] <= 8
            ELSE FALSE

isYakuhai(tile, bakaze, jikaze) ==
    IF tile = HAKU \/ tile = HATSU \/ tile = CHUN THEN TRUE
    ELSE IF windTile(BAKAZE_MAP, bakaze) # NoTile /\ tile = windTile(BAKAZE_MAP, bakaze) THEN TRUE
    ELSE IF windTile(JIKAZE_MAP, jikaze) # NoTile /\ tile = windTile(JIKAZE_MAP, jikaze) THEN TRUE
    ELSE FALSE

\* the body of the loop over the decompositions: all runs, a pair that is
\* no value tile, and a two-sided wait
isPinfuPattern(pattern, h, wt, bakaze, jikaze) ==
    IF ~(\A j \in DOMAIN pattern.mentsu : isShuntsu(pattern.mentsu[j])) THEN FALSE
    ELSE IF isYakuhai(pattern.jantou, bakaze, jikaze) THEN FALSE
    ELSE isRyanmenWait(h, wt, <<pattern>>)

somePinfuPattern(patterns, h, wt, bakaze, jikaze) ==
    IF Len(patterns) = 0 THEN FALSE
    ELSE \E i \in DOMAIN patterns : isPinfuPattern(patterns[i], h, wt, bakaze, jikaze)

isPinfu(h, wt, isMenzen, bakaze, jikaze) ==
    IF ~isMenzen THEN FALSE
    ELSE somePinfuPattern(getMentsuPatterns(h), h, wt, bakaze, jikaze)

\* the names `場風・自風 ${tile}`, `場風 ${tile}` and `自風 ${tile}`
BakazeJikazeName == (TON :> "BakazeJikaze Ton" @@ NAN :> "BakazeJikaze Nan"
                     @@ SHA :> "BakazeJikaze Sha" @@ PEI :> "BakazeJikaze Pei")
BakazeName == (TON :> "Bakaze Ton" @@ NAN :> "Bakaze Nan"
               @@ SHA :> "Bakaze Sha" @@ PEI :> "Bakaze Pei")
JikazeName == (TON :> "Jikaze Ton" @@ NAN :> "Jikaze Nan"
               @@ SHA :> "Jikaze Sha" @@ PEI :> "Jikaze Pei")

If(cond, list) == IF cond THEN list ELSE <<>>

detectYakuhai(h, bakaze, jikaze, melds) ==
    LET tileCounts == countTiles(withMeldTiles(h, melds))
        bakazeTile == windTile(BAKAZE_MAP, bakaze)
        jikazeTile == windTile(JIKAZE_MAP, jikaze)
    IN  If(cnt(tileCounts, HAKU) >= 3, <<Yaku("Haku", 1)>>)
        \o If(cnt(tileCounts, HATSU) >= 3, <<Yaku("Hatsu", 1)>>)
        \o If(cnt(tileCounts, CHUN) >= 3, <<Yaku("Chun", 1)>>)
        \o (IF bakazeTile = jikazeTile /\ cnt(tileCounts, bakazeTile) >= 3
            THEN <<Yaku(BakazeJikazeName[bakazeTile], 2)>>
            ELSE If(cnt(tileCounts, bakazeTile) >= 3, <<Yaku(BakazeName[bakazeTile], 1)>>)
                 \o If(cnt(tileCounts, jikazeTile) >= 3, <<Yaku(JikazeName[jikazeTile], 1)>>))

isToitoihou(h, melds) ==
    LET tileCounts == countTiles(h)
        koutsu == Cardinality({t \in DOMAIN tileCounts : tileCounts[t] >= 3})
        called == Cardinality({i \in DOMAIN melds :
                                 melds[i].type \in {"pon", "minkan", "ankan"}})
    IN  koutsu + called >= 4

countAnkou(h) ==
    LET tileCounts == countTiles(h)
    IN  Min(Cardinality({t \in DOMAIN tileCounts : tileCounts[t] >= 3}), 3)

isHonroutou(h, melds) ==
    LET allTiles == withMeldTiles(h, melds)
    IN  \A i \in DOMAIN allTiles :
            IF tileLength(allTiles[i]) = 1 THEN TRUE
            ELSE parseTile(allTiles[i])[1] = 1 \/ parseTile(allTiles[i])[1] = 9

isShouSangen(tileCounts) ==
    LET sangenCount == Cardinality({t \in {HAKU, HATSU, CHUN} : cnt(tileCounts, t) >= 3})
        sangenPair == Cardinality({t \in {HAKU, HATSU, CHUN} : cnt(tileCounts, t) = 2})
    IN  sangenCount = 2 /\ sangenPair = 1

suitsOf(allTiles) ==
    {parseTile(allTiles[i])[2] : i \in {j \in DOMAIN allTiles : tileLength(allTiles[j]) = 2}}

isHonitsu(h, melds) ==
    LET allTiles == withMeldTiles(h, melds)
        hasJihai == \E i \in DOMAIN allTiles : tileLength(allTiles[i]) # 2
    IN  Cardinality(suitsOf(allTiles)) = 1 /\ hasJihai

isChinitsu(h, melds) ==
    LET allTiles == withMeldTiles(h, melds)
    IN  Cardinality(suitsOf(allTiles)) = 1
        /\ \A i \in DOMAIN allTiles : tileLength(allTiles[i]) = 2

(***************************************************************************)
(* Limit hands.                                                            *)
(***************************************************************************)
isKokushi(h, melds) ==
    IF Len(melds) > 0 THEN FALSE
    ELSE LET tileCounts == countTiles(h)
         IN  IF ~(\A t \in YAOCHUHAI : cnt(tileCounts, t) >= 1) THEN FALSE
             ELSE \A t \in DOMAIN tileCounts : t \in YAOCHUHAI

isSuuankou(h, wt, isTsumo, melds) ==
    IF Len(melds) > 0 THEN FALSE
    ELSE LET tileCounts == countTiles(h)
         IN  IF ~isTsumo /\ cnt(tileCounts, wt) = 3 THEN FALSE
             ELSE Cardinality({t \in DOMAIN tileCounts : tileCounts[t] >= 3}) = 4

isDaisangen(h, melds) ==
    LET tileCounts == countTiles(withMeldTiles(h, melds))
    IN  cnt(tileCounts, HAKU) >= 3 /\ cnt(tileCounts, HATSU) >= 3 /\ cnt(tileCounts, CHUN) >= 3

isTsuuiisou(h, melds) ==
    LET allTiles == withMeldTiles(h, melds)
    IN  \A i \in DOMAIN allTiles : tileLength(allTiles[i]) = 1

GreenTiles == {22, 23, 24, 26, 28, HATSU}

isRyuuiisou(h, melds) ==
    LET allTiles == withMeldTiles(h, melds)
    IN  \A i \in DOMAIN allTiles : allTiles[i] \in GreenTiles

isChinroutou(h, melds) ==
    LET allTiles == withMeldTiles(h, melds)
    IN  \A i \in DOMAIN allTiles :
            IF tileLength(allTiles[i]) = 2
            THEN parseTile(allTiles[i])[1] = 1 \/ parseTile(allTiles[i])[1] = 9
            ELSE FALSE

isChuurenPoutou(h, melds) ==
    IF Len(melds) > 0 THEN FALSE
    ELSE IF ~isChinitsu(h, melds) THEN FALSE
    ELSE
        LET tileCounts == countTiles(h)
            suit == parseTile(h[1])[2]
            expectedPattern == [i \in 1..9 |-> IF i = 1 \/ i = 9 THEN 3 ELSE 1]
            actual == [i \in 1..9 |-> cnt(tileCounts, mkTile(i, suit))]
        IN  IF \E i \in 1..9 : actual[i] < expectedPattern[i] THEN FALSE
            ELSE SeqSum([i \in 1..9 |-> actual[i] - expectedPattern[i]]) = 1

WindTiles == {TON, NAN, SHA, PEI}

isShousuushii(h, melds) ==
    LET tileCounts == countTiles(withMeldTiles(h, melds))
        koutsuCount == Cardinality({w \in WindTiles : cnt(tileCounts, w) >= 3})
        pairCount == Cardinality({w \in WindTiles : cnt(tileCounts, w) = 2})
    IN  koutsuCount = 3 /\ pairCount = 1

isDaisuushii(h, melds) ==
    LET tileCounts == countTiles(withMeldTiles(h, melds))
    IN  \A w \in WindTiles : cnt(tileCounts, w) >= 3

(***************************************************************************)
(* detectYaku(hand, winningTile, options).                                 *)
(***************************************************************************)
YAKUMAN_HAN == 13
DOUBLE_YAKUMAN_HAN == 26

\* the ordinary yaku, pushed in the order of evaluation
ordinaryYaku(h, wt, opts) ==
    LET tileCounts == countTiles(h)
        melds == opts.melds
        hasMelds == Len(melds) > 0
    IN  If(opts.isRiichi /\ ~hasMelds,
           <<Yaku("Riichi", 1)>> \o If(opts.isIppatsu, <<Yaku("Ippatsu", 1)>>))
        \o If(opts.isTsumo /\ opts.isMenzen /\ ~hasMelds, <<Yaku("MenzenTsumo", 1)>>)
        \o If(isTanyao(h, melds), <<Yaku("Tanyao", 1)>>)
        \o If(isPinfu(h, wt, opts.isMenzen, opts.bakaze, opts.jikaze) /\ ~hasMelds,
              <<Yaku("Pinfu", 1)>>)
        \o detectYakuhai(h, opts.bakaze, opts.jikaze, melds)
        \o If(~hasMelds /\ Cardinality({t \in DOMAIN tileCounts : tileCounts[t] = 2}) = 7,
              <<Yaku("Chiitoitsu", 2)>>)
        \o If(isToitoihou(h, melds), <<Yaku("Toitoihou", 2)>>)
        \o If(countAnkou(h) = 3, <<Yaku("Sanankou", 2)>>)
        \o If(isHonroutou(h, melds), <<Yaku("Honroutou", 2)>>)
        \o If(isShouSangen(tileCounts), <<Yaku("Shousangen", 2)>>)
        \o If(isHonitsu(h, melds), <<Yaku("Honitsu", IF hasMelds THEN 2 ELSE 3)>>)
        \o If(isChinitsu(h, melds), <<Yaku("Chinitsu", IF hasMelds THEN 5 ELSE 6)>>)

\* limit-hand checks that look at the all-honors hand before the three dragons
limitHand_HonorsFirst(h, wt, opts) ==
    LET melds == opts.melds
    IN  IF opts.isTenhou THEN <<Yaku("Tenhou", YAKUMAN_HAN)>>
        ELSE IF opts.isChiihou THEN <<Yaku("Chiihou", YAKUMAN_HAN)>>
        ELSE IF isDaisuushii(h, melds) THEN <<Yaku("Daisuushii", DOUBLE_YAKUMAN_HAN)>>
        ELSE IF isKokushi(h, melds) THEN <<Yaku("Kokushi", YAKUMAN_HAN)>>
        ELSE IF isSuuankou(h, wt, opts.isTsumo, melds) THEN <<Yaku("Suuankou", YAKUMAN_HAN)>>
        ELSE IF isTsuuiisou(h, melds) THEN <<Yaku("Tsuuiisou", YAKUMAN_HAN)>>
        ELSE IF isDaisangen(h, melds) THEN <<Yaku("Daisangen", YAKUMAN_HAN)>>
        ELSE IF isRyuuiisou(h, melds) THEN <<Yaku("Ryuuiisou", YAKUMAN_HAN)>>
        ELSE IF isChinroutou(h, melds) THEN <<Yaku("Chinroutou", YAKUMAN_HAN)>>
        ELSE IF isChuurenPoutou(h, melds) THEN <<Yaku("ChuurenPoutou", YAKUMAN_HAN)>>
        ELSE IF isShousuushii(h, melds) THEN <<Yaku("Shousuushii", YAKUMAN_HAN)>>
        ELSE <<>>

\* the limit-hand checks: the first that matches is pushed and returned
limitHand(h, wt, opts) ==
    LET melds == opts.melds
    IN  IF opts.isTenhou THEN <<Yaku("Tenhou", YAKUMAN_HAN)>>
        ELSE IF opts.isChiihou THEN <<Yaku("Chiihou", YAKUMAN_HAN)>>
        ELSE IF isDaisuushii(h, melds) THEN <<Yaku("Daisuushii", DOUBLE_YAKUMAN_HAN)>>
        ELSE IF isKokushi(h, melds) THEN <<Yaku("Kokushi", YAKUMAN_HAN)>>
        ELSE IF isSuuankou(h, wt, opts.isTsumo, melds) THEN <<Yaku("Suuankou", YAKUMAN_HAN)>>
        ELSE IF isDaisangen(h, melds) THEN <<Yaku("Daisangen", YAKUMAN_HAN)>>
        ELSE IF isTsuuiisou(h, melds) THEN <<Yaku("Tsuuiisou", YAKUMAN_HAN)>>
        ELSE IF isRyuuiisou(h, melds) THEN <<Yaku("Ryuuiisou", YAKUMAN_HAN)>>
        ELSE IF isChinroutou(h, melds) THEN <<Yaku("Chinroutou", YAKUMAN_HAN)>>
        ELSE IF isChuurenPoutou(h, melds) THEN <<Yaku("ChuurenPoutou", YAKUMAN_HAN)>>
        ELSE IF isShousuushii(h, melds) THEN <<Yaku("Shousuushii", YAKUMAN_HAN)>>
        ELSE <<>>

\* a detectYaku whose limit-hand branches push without returning
detectYaku_NoReturn(h, wt, opts) == limitHand(h, wt, opts) \o ordinaryYaku(h, wt, opts)

detectYaku(h, wt, opts) ==
    LET limit == limitHand(h, wt, opts)
    IN  IF limit # <<>> THEN limit ELSE ordinaryYaku(h, wt, opts)

(***************************************************************************)
(* Fu calculator.                                                          *)
(***************************************************************************)
detectWaitPattern(h, wt) ==
    LET tileCounts == countTiles(h)
        num == parseTile(wt)[1]
        suit == parseTile(wt)[2]
        tile1 == mkTile(num - 2, suit)
        tile2 == mkTile(num - 1, suit)
        tile3 == mkTile(num + 1, suit)
        tile4 == mkTile(num + 2, suit)
    IN  IF cnt(tileCounts, wt) = 2 THEN "tanki"
        ELSE IF cnt(tileCounts, wt) = 3 THEN "shanpon"
        ELSE IF num # 0 /\ suit # 0 THEN
            IF num = 3 /\ cnt(tileCounts, tile2) >= 1 /\ cnt(tileCounts, tile1) >= 1
                THEN "penchan"
            ELSE IF num = 7 /\ cnt(tileCounts, tile3) >= 1 /\ cnt(tileCounts, tile4) >= 1
                THEN "penchan"
            ELSE
                LET hasSequence == cnt(tileCounts, tile2) >= 1 /\ cnt(tileCounts, tile3) >= 1
                    hasRyanmen ==
                        \/ num >= 3 /\ cnt(tileCounts, tile1) >= 1 /\ cnt(tileCounts, tile2) >= 1
                        \/ num <= 7 /\ cnt(tileCounts, tile3) >= 1 /\ cnt(tileCounts, tile4) >= 1
                IN  IF num >= 2 /\ num <= 8
                       /\ cnt(tileCounts, tile2) >= 1 /\ cnt(tileCounts, tile3) >= 1
                       /\ hasSequence /\ ~hasRyanmen
                    THEN "kanchan"
                    ELSE "ryanmen"
        ELSE "tanki"

getConcealedTriplets(h, wt, isTsumo) ==
    LET handWithoutWinning == SelectSeq(h, LAMBDA t : t # wt)
        tileCounts == countTiles(handWithoutWinning)
    IN  {tile \in DOMAIN tileCounts :
            IF isTsumo /\ tileCounts[tile] >= 3 THEN TRUE
            ELSE IF ~isTsumo THEN
                IF tile = wt THEN tileCounts[tile] = 3
                ELSE tileCounts[tile] >= 3
            ELSE FALSE}

\* tile.length === 1 || tile[0] === '1' || tile[0] === '9'
isYaochuhaiTile(tile) ==
    tileLength(tile) = 1 \/ parseTile(tile)[1] = 1 \/ parseTile(tile)[1] = 9

\* a fu total that is not rounded
ceil10_Unrounded(x) == x

\* Math.ceil(fu / 10) * 10
ceil10(x) == ((x + 9) \div 10) * 10

pairFu(tileCounts, bakazeTile, jikazeTile) ==
    2 * Cardinality({tile \in DOMAIN tileCounts :
            /\ tileCounts[tile] = 2
            /\ \/ tile = HAKU \/ tile = HATSU \/ tile = CHUN
               \/ bakazeTile # NoTile /\ tile = bakazeTile
               \/ jikazeTile # NoTile /\ tile = jikazeTile})

tripletFuOf(tile, count, isConcealed) ==
    IF count = 4
    THEN IF isYaochuhaiTile(tile) THEN (IF isConcealed THEN 32 ELSE 16)
         ELSE (IF isConcealed THEN 16 ELSE 8)
    ELSE IF isYaochuhaiTile(tile) THEN (IF isConcealed THEN 8 ELSE 4)
         ELSE (IF isConcealed THEN 4 ELSE 2)

RECURSIVE SumOver(_, _)
SumOver(S, f) == IF S = {} THEN 0
                 ELSE LET x == CHOOSE y \in S : TRUE
                      IN  f[x] + SumOver(S \ {x}, f)

handTripletFu(tileCounts, concealedTriplets) ==
    LET held == {tile \in DOMAIN tileCounts : tileCounts[tile] >= 3}
    IN  SumOver(held, [tile \in held |->
                          tripletFuOf(tile, tileCounts[tile], tile \in concealedTriplets)])

meldFuOf(meld) ==
    LET tile == meld.tiles[1]
    IN  IF meld.type = "pon" THEN (IF isYaochuhaiTile(tile) THEN 4 ELSE 2)
        ELSE IF meld.type = "minkan" THEN (IF isYaochuhaiTile(tile) THEN 16 ELSE 8)
        ELSE IF meld.type = "ankan" THEN (IF isYaochuhaiTile(tile) THEN 32 ELSE 16)
        ELSE 0

calculateFu(h, wt, isTsumo, isMenzen, bakaze, jikaze, melds) ==
    LET tileCounts == countTiles(h)
        pairs == {t \in DOMAIN tileCounts : tileCounts[t] = 2}
        hasMelds == Len(melds) > 0
        rawFu ==
            20
            + (IF isTsumo THEN 2 ELSE 0)
            + (IF ~isTsumo /\ isMenzen /\ ~hasMelds THEN 10 ELSE 0)
            + pairFu(tileCounts, windTile(BAKAZE_MAP, bakaze), windTile(JIKAZE_MAP, jikaze))
            + handTripletFu(tileCounts, getConcealedTriplets(h, wt, isTsumo))
            + SeqSum([i \in DOMAIN melds |-> meldFuOf(melds[i])])
            + (IF detectWaitPattern(h, wt) \in {"penchan", "kanchan", "tanki"} THEN 2 ELSE 0)
        rounded == ceil10(rawFu)
    IN  IF Cardinality(pairs) = 7 THEN 25
        ELSE IF isTsumo /\ isMenzen /\ isPinfu(h, wt, isMenzen, bakaze, jikaze) THEN 20
        ELSE IF hasMelds /\ rounded < 30 THEN 30
        ELSE rounded

(***************************************************************************)
(* Input spaces.                                                           *)
(***************************************************************************)
FreeOrder == <<1, 2, 3, 4, 35, 31, 5, 6, 7>>
FreeTiles == SubSeq(FreeOrder, 1, FreeKinds)

Rep(t, k) == [i \in 1..k |-> t]

RECURSIVE SortedHands(_, _)
SortedHands(alpha, n) ==
    IF n = 0 THEN {<<>>}
    ELSE IF alpha = <<>> THEN {}
    ELSE UNION { {Rep(Head(alpha), k) \o r : r \in SortedHands(Tail(alpha), n - k)}
                 : k \in 0..Min(MaxCopies, n) }

\* every hand of n tiles over the free tile kinds, at most MaxCopies of each
FreeHands(n) == IF n < 0 THEN {} ELSE {sortHand(h) : h \in SortedHands(FreeTiles, n)}

RECURSIVE SetToSeq(_)
SetToSeq(S) == IF S = {} THEN <<>>
               ELSE LET m == CHOOSE x \in S : \A y \in S : x <= y
                    IN  <<m>> \o SetToSeq(S \ {m})

RECURSIVE Doubled(_)
Doubled(s) == IF s = <<>> THEN <<>> ELSE <<Head(s), Head(s)>> \o Doubled(Tail(s))

Orphans13 == SetToSeq(YAOCHUHAI)

\* fixed runs that complete a hand of fewer free tiles: 4p5p6p and 7s8s9s
Filler1 == <<14, 15, 16>>
Filler2 == <<27, 28, 29>>

\* the hands of n tiles: free tiles alone, and fewer free tiles beside one
\* or two of the fixed runs
HandsOfSize(n) ==
    FreeHands(n)
    \cup {sortHand(h \o Filler1) : h \in FreeHands(n - 3)}
    \cup {sortHand(h \o Filler1 \o Filler2) : h \in FreeHands(n - 6)}

\* the thirteen terminals and honors plus a 14th tile, and two hands that
\* lack one of the thirteen
KokushiLike ==
    {sortHand(Orphans13 \o <<x>>) : x \in {1, 5, 9, 12, 19, 31, 37}}
    \cup {sortHand(SetToSeq(YAOCHUHAI \ {y}) \o <<1, 1>>) : y \in {9, 37}}

PairTiles == {2, 3, 4, 15, 16, 17, 28, 31}

\* seven different pairs, and five pairs next to four of a kind
SevenPairsLike ==
    {Doubled(SetToSeq(S)) : S \in {T \in SUBSET PairTiles : Cardinality(T) = 7}}
    \cup {sortHand(Doubled(SetToSeq(S)) \o <<2, 2>>) :
            S \in {T \in SUBSET PairTiles : Cardinality(T) = 6 /\ 2 \in T}}

SpecialHands == KokushiLike \cup SevenPairsLike

Meld(type, tiles) == [type |-> type, tiles |-> tiles]

\* declared melds, on tiles outside the free tile kinds
MeldCat == << Meld("pon", <<29, 29, 29>>),
              Meld("chii", <<17, 18, 19>>),
              Meld("pon", <<12, 12, 12>>),
              Meld("chii", <<22, 23, 24>>) >>

KanCat == << Meld("ankan", <<36, 36, 36, 36>>),
             Meld("minkan", <<32, 32, 32, 32>>) >>

NoMelds == <<>>

MeldPrefixes == {SubSeq(MeldCat, 1, k) : k \in 0..MaxMelds}

\* the meld lists given to detectYaku, calculateFu and calculateScore
MeldChoices ==
    { NoMelds,
      <<MeldCat[1]>>, <<KanCat[1]>>,
      <<KanCat[2], MeldCat[3]>>,
      SubSeq(MeldCat, 1, 3),
      SubSeq(MeldCat, 1, 4) }

isOpenMeld(meld) == meld.type \in {"chii", "pon", "minkan"}

\* isMenzen as a caller sets it: never true beside a chii, pon or minkan
MenzenChoices(melds) ==
    IF \E i \in DOMAIN melds : isOpenMeld(melds[i]) THEN {FALSE} ELSE {TRUE, FALSE}

\* (bakaze, jikaze)
WindChoices == {<<"ton", "nan">>, <<"nan", "nan">>, <<"ton", "ton">>}

\* flags is (isRiichi, isIppatsu, isTenhou, isChiihou)
Options(isTsumo, winds, flags, isMenzen, melds) ==
    [isTsumo |-> isTsumo, bakaze |-> winds[1], jikaze |-> winds[2],
     isRiichi |-> flags[1], isIppatsu |-> flags[2], isMenzen |-> isMenzen,
     melds |-> melds, isTenhou |-> flags[3], isChiihou |-> flags[4]]

\* the option sets without riichi, ippatsu, tenhou or chiihou
PlainOptions(melds) ==
    {Options(t, w, <<FALSE, FALSE, FALSE, FALSE>>, m, melds) :
        t \in BOOLEAN, w \in WindChoices, m \in MenzenChoices(melds)}

\* every self-draw/discard, wind and isMenzen choice without the special
\* flags, riichi and ippatsu under one wind choice, tenhou and chiihou on a
\* self-draw
AllOptions(melds) ==
    PlainOptions(melds)
    \cup {Options(t, <<"ton", "nan">>, f, m, melds) :
            t \in BOOLEAN, m \in MenzenChoices(melds),
            f \in {<<TRUE, FALSE, FALSE, FALSE>>, <<TRUE, TRUE, FALSE, FALSE>>}}
    \cup {Options(TRUE, <<"ton", "nan">>, f, m, melds) :
            m \in MenzenChoices(melds),
            f \in {<<FALSE, FALSE, TRUE, FALSE>>, <<FALSE, FALSE, FALSE, TRUE>>}}

\* the option sets given to calculateScore: self-draw or discard, seat wind
\* south or east, isMenzen as the melds make it, and riichi on a closed hand
ScoreOptions(melds) ==
    LET closed == \A i \in DOMAIN melds : ~isOpenMeld(melds[i])
    IN  {Options(t, w, <<FALSE, FALSE, FALSE, FALSE>>, closed, melds) :
            t \in BOOLEAN, w \in {<<"ton", "nan">>, <<"ton", "ton">>}}
        \cup {Options(t, <<"ton", "nan">>, <<TRUE, FALSE, FALSE, FALSE>>, TRUE, melds) :
                t \in IF closed THEN {FALSE} ELSE {}}

\* the calculator page as it is mounted
PageIdle ==
    /\ pageMelds = <<>> /\ meldInput = <<>> /\ meldType = "chii"
    /\ tileSelectMode = "hand" /\ error = ""
    /\ redHandFlags = <<>> /\ redMeldInputFlags = <<>> /\ redMeldFlags = <<>>
    /\ redWinningFlag = FALSE

Idle ==
    /\ hanArg = 0 /\ fuArg = 0 /\ isOyaArg = FALSE
    /\ win = FALSE /\ yaku = <<>> /\ fu = 0 /\ score = <<>> /\ result = <<>>
    /\ handShapes = <<>> /\ memos = <<>> /\ stack = <<>>
    /\ PageIdle

(***************************************************************************)
(* Calls of isWinningHand(hand, melds).                                    *)
(***************************************************************************)
InitWin ==
    /\ pc = "call"
    /\ \E melds \in MeldPrefixes :
          /\ options = [melds |-> melds]
          /\ hand \in HandsOfSize(14 - 3 * Len(melds)) \cup HandsOfSize(14) \cup SpecialHands
    /\ winningTile = NoTile
    /\ Idle

CallIsWinningHand ==
    /\ pc = "call"
    /\ win' = isWinningHand(hand, options.melds)
    /\ pc' = "done"
    /\ UNCHANGED <<pageVars, stack, memos, handShapes, hand, winningTile, options, hanArg, fuArg,
                   isOyaArg, yaku, fu, score, result>>

NextWin == CallIsWinningHand

SpecWin == InitWin /\ [][NextWin]_vars

(***************************************************************************)
(* Reference shapes, stated on tile counts.                                *)
(***************************************************************************)
\* the number of runs that start at each rank of a suit when the counts r
\* are read as runs only: r[i] minus the runs started at i-1 and i-2
RunStarts(r, suit) ==
    LET starts[i \in 1..9] ==
            cnt(r, mkTile(i, suit))
            - (IF i > 1 THEN starts[i - 1] ELSE 0)
            - (IF i > 2 THEN starts[i - 2] ELSE 0)
    IN  starts

\* the counts r are a union of runs
RunsOnly(r) ==
    /\ \A t \in DOMAIN r : tileLength(t) = 1 => r[t] = 0
    /\ \A suit \in 1..3 :
          /\ \A i \in 1..9 : RunStarts(r, suit)[i] >= 0
          /\ RunStarts(r, suit)[8] = 0 /\ RunStarts(r, suit)[9] = 0

\* one pair plus n groups, each a run or a triplet
StandardShape(h, n) ==
    LET c == countTiles(h)
    IN  /\ Len(h) = 3 * n + 2
        /\ \E p \in DOMAIN c :
              /\ c[p] >= 2
              /\ LET c2 == dec(c, p, 2)
                 IN  \E T \in SUBSET {t \in DOMAIN c2 : c2[t] >= 3} :
                        RunsOnly([t \in DOMAIN c2 |-> IF t \in T THEN c2[t] - 3 ELSE c2[t]])

SevenPairsShape(h) ==
    /\ Len(h) = 14
    /\ Cardinality(Range(h)) = 7
    /\ \A t \in Range(h) : Cardinality({i \in DOMAIN h : h[i] = t}) = 2

ThirteenOrphansShape(h) ==
    /\ Len(h) = 14
    /\ Range(h) = YAOCHUHAI

WinningShape(h, melds) ==
    \/ StandardShape(h, 4 - Len(melds))
    \/ Len(melds) = 0 /\ (SevenPairsShape(h) \/ ThirteenOrphansShape(h))

\* C1: isWinningHand returns true exactly for one pair plus (4 - melds)
\* runs or triplets or, without melds, seven different pairs or thirteen
\* orphans; it returns false for every other tile multiset.
C1_IsWinningHandExact ==
    pc = "done" => (win <=> WinningShape(hand, options.melds))

(***************************************************************************)
(* calculateFinalScore(han, fu, isOya, isTsumo).  The returned string is   *)
(* modelled by its format and the numbers printed in it, in order:         *)
(*   "OyaTsumo"  `${perPerson}点オール（合計${perPerson * 3}点）`               *)
(*   "Ron"       `${amount}点`                                              *)
(*   "KoTsumo"   `子: ${ko}点、親: ${oya}点（合計${ko * 2 + oya}点）`            *)
(***************************************************************************)
\* Math.floor(x / 100) * 100: a rounding that drops the remainder
floor100(x) == (x \div 100) * 100

\* Math.ceil(x / 100) * 100
ceil100(x) == ((x + 99) \div 100) * 100

baseScoreOf(han, fuValue) ==
    IF han >= 5 THEN
        IF han <= 5 THEN 2000
        ELSE IF han <= 7 THEN 3000
        ELSE IF han <= 10 THEN 4000
        ELSE IF han <= 12 THEN 6000
        ELSE 8000
    ELSE fuValue * 2^(2 + han)

calculateFinalScore(han, fuValue, isOya, isTsumo) ==
    LET baseScore == baseScoreOf(han, fuValue)
    IN  IF isOya THEN
            IF isTsumo THEN
                LET perPerson == ceil100(baseScore * 2)
                IN  [fmt |-> "OyaTsumo", nums |-> <<perPerson, perPerson * 3>>]
            ELSE [fmt |-> "Ron", nums |-> <<ceil100(baseScore * 6)>>]
        ELSE
            IF isTsumo THEN
                LET ko == ceil100(baseScore)
                    oya == ceil100(baseScore * 2)
                IN  [fmt |-> "KoTsumo", nums |-> <<ko, oya, ko * 2 + oya>>]
            ELSE [fmt |-> "Ron", nums |-> <<ceil100(baseScore * 4)>>]

FuValues == {25} \cup {10 * i : i \in 2..MaxFuTens}

InitFinal ==
    /\ pc = "call"
    /\ hanArg \in 1..MaxHan
    /\ fuArg \in FuValues
    /\ isOyaArg \in BOOLEAN
    /\ \E t \in BOOLEAN : options = [isTsumo |-> t]
    /\ hand = <<>> /\ winningTile = NoTile
    /\ win = FALSE /\ yaku = <<>> /\ fu = 0 /\ score = <<>> /\ result = <<>>
    /\ handShapes = <<>> /\ memos = <<>> /\ stack = <<>>
    /\ PageIdle

CallCalculateFinalScore ==
    /\ pc = "call"
    /\ score' = calculateFinalScore(hanArg, fuArg, isOyaArg, options.isTsumo)
    /\ pc' = "done"
    /\ UNCHANGED <<pageVars, stack, memos, handShapes, hand, winningTile, options, hanArg, fuArg,
                   isOyaArg, win, yaku, fu, result>>

NextFinal == CallCalculateFinalScore

SpecFinal == InitFinal /\ [][NextFinal]_vars

(***************************************************************************)
(* Reference payments.                                                     *)
(***************************************************************************)
\* the least multiple of 100 that is not below x
RoundUp100(x) == CHOOSE m \in {100 * k : k \in 0..(x \div 100 + 1)} : m >= x /\ m - 100 < x

\* what each payer pays for a given base
PaymentsOf(base, isOya, isTsumo) ==
    IF isOya
    THEN IF isTsumo THEN [i \in 1..3 |-> RoundUp100(2 * base)]
         ELSE <<RoundUp100(6 * base)>>
    ELSE IF isTsumo THEN <<RoundUp100(base), RoundUp100(base), RoundUp100(2 * base)>>
         ELSE <<RoundUp100(4 * base)>>

\* the payers' amounts a reported score stands for
ReportedPayments(sc) ==
    CASE sc.fmt = "OyaTsumo" -> <<sc.nums[1], sc.nums[1], sc.nums[1]>>
      [] sc.fmt = "KoTsumo" -> <<sc.nums[1], sc.nums[1], sc.nums[2]>>
      [] sc.fmt = "Ron" -> <<sc.nums[1]>>

\* the total a reported score states (the single amount on a discard win)
ReportedTotal(sc) == sc.nums[Len(sc.nums)]

MANGAN_BASE == 2000

\* C7: for han <= 4 the base is min(fu * 2^(2+han), 2000), so the payment is
\* capped at the mangan payment and never decreases when han increases.
C7_ManganCap ==
    pc = "done" /\ hanArg <= 4 =>
        /\ ReportedPayments(score) =
              PaymentsOf(Min(fuArg * 2^(2 + hanArg), MANGAN_BASE), isOyaArg, options.isTsumo)
        /\ ReportedTotal(score) <=
              ReportedTotal(calculateFinalScore(hanArg + 1, fuArg, isOyaArg, options.isTsumo))

\* C8: every payer's amount is the base times 2, 6, 1/2 or 4 as the case
\* requires, rounded up to a multiple of 100 on its own, and the reported
\* total is the sum of the reported individual amounts.
C8_PaymentSplit ==
    pc = "done" =>
        /\ ReportedPayments(score) =
              PaymentsOf(baseScoreOf(hanArg, fuArg), isOyaArg, options.isTsumo)
        /\ \A i \in DOMAIN score.nums : score.nums[i] % 100 = 0
        /\ ReportedTotal(score) = SeqSum(ReportedPayments(score))
        /\ score.fmt = (IF ~options.isTsumo THEN "Ron"
                        ELSE IF isOyaArg THEN "OyaTsumo" ELSE "KoTsumo")

\* C8 witness: 2 han 20 fu non-dealer self-draw is reported as 400 / 700,
\* total 1500.
C8_Witness ==
    /\ pc = "done" /\ hanArg = 2 /\ fuArg = 20 /\ ~isOyaArg /\ options.isTsumo
    /\ score = [fmt |-> "KoTsumo", nums |-> <<400, 700, 1500>>]

\* the base of the tier table, limit hands stacking proportionally
TierBase(han) ==
    IF han >= 13 THEN 8000 * (han \div 13)
    ELSE IF han >= 11 THEN 6000
    ELSE IF han >= 8 THEN 4000
    ELSE IF han >= 6 THEN 3000
    ELSE 2000

\* C9: from 5 han on the base is selected by tier, and 26 han pays twice,
\* 39 han three times the 13-han payment.
C9_TierTable ==
    pc = "done" /\ hanArg >= 5 =>
        ReportedPayments(score) = PaymentsOf(TierBase(hanArg), isOyaArg, options.isTsumo)

(***************************************************************************)
(* Calls of detectYaku and calculateFu on complete hands: the concealed    *)
(* tiles, winning tile included, beside the declared melds.                *)
(***************************************************************************)
\* the concealed tiles of a complete hand beside k melds, and without melds
\* also the thirteen-orphans-like and seven-pairs-like hands
CompleteHands(k) ==
    {h \in HandsOfSize(14 - 3 * k) : StandardShape(h, 4 - k)}
    \cup (IF k = 0 THEN SpecialHands ELSE {})

InitYaku ==
    /\ pc = "call"
    /\ \E melds \in MeldChoices :
          /\ hand \in CompleteHands(Len(melds))
          /\ options \in AllOptions(melds)
    /\ winningTile \in Range(hand)
    /\ Idle

CallDetectYaku ==
    /\ pc = "call"
    /\ yaku' = detectYaku(hand, winningTile, options)
    /\ pc' = "done"
    /\ UNCHANGED <<pageVars, stack, memos, handShapes, hand, winningTile, options, hanArg, fuArg,
                   isOyaArg, win, fu, score, result>>

NextYaku == CallDetectYaku

SpecYaku == InitYaku /\ [][NextYaku]_vars

\* the arguments of calculateFu: every isTsumo, wind and isMenzen choice,
\* isMenzen also set beside a chii, pon or minkan under one wind choice
FuOptions(melds) ==
    PlainOptions(melds)
    \cup {Options(t, <<"ton", "nan">>, <<FALSE, FALSE, FALSE, FALSE>>, TRUE, melds) :
            t \in BOOLEAN}

InitFu ==
    /\ pc = "call"
    /\ \E melds \in MeldChoices :
          /\ hand \in CompleteHands(Len(melds))
          /\ options \in FuOptions(melds)
    /\ winningTile \in Range(hand)
    /\ Idle

CallCalculateFu ==
    /\ pc = "call"
    /\ fu' = calculateFu(hand, winningTile, options.isTsumo, options.isMenzen,
                         options.bakaze, options.jikaze, options.melds)
    /\ pc' = "done"
    /\ UNCHANGED <<pageVars, stack, memos, handShapes, hand, winningTile, options, hanArg, fuArg,
                   isOyaArg, win, yaku, score, result>>

NextFu == CallCalculateFu

SpecFu == InitFu /\ [][NextFu]_vars

(***************************************************************************)
(* Reference yaku and fu, stated on decompositions.                        *)
(***************************************************************************)
HasYaku(list, name) == \E i \in DOMAIN list : list[i].name = name

HasLimitHand(list) == \E i \in DOMAIN list : list[i].han >= YAKUMAN_HAN

WindOf(wind) == CASE wind = "ton" -> TON [] wind = "nan" -> NAN
                  [] wind = "sha" -> SHA [] wind = "pei" -> PEI [] OTHER -> NoTile

\* a dragon, the round wind or the seat wind
ValueTile(t, bakaze, jikaze) ==
    t \in {HAKU, HATSU, CHUN} \/ t = WindOf(bakaze) \/ t = WindOf(jikaze)

\* the winning tile is an end tile of a run from i to i+2 of the suit, other
\* than the 3 of 1-2-3 or the 7 of 7-8-9
OpenEnd(wt, i, suit) ==
    \/ wt = mkTile(i, suit) /\ i + 2 # 9
    \/ wt = mkTile(i + 2, suit) /\ i # 1

\* some decomposition into a non-value pair and four runs has a run that the
\* winning tile completes at an open end
PinfuShape(h, wt, bakaze, jikaze) ==
    LET c == countTiles(h)
    IN  /\ Len(h) = 14
        /\ \E p \in DOMAIN c :
              /\ c[p] >= 2
              /\ ~ValueTile(p, bakaze, jikaze)
              /\ RunsOnly(dec(c, p, 2))
              /\ \E suit \in 1..3, i \in 1..7 :
                    /\ RunStarts(dec(c, p, 2), suit)[i] > 0
                    /\ OpenEnd(wt, i, suit)

\* C5: without a limit hand, pinfu is listed exactly for a closed hand with
\* a decomposition into a non-value pair and four runs, one of which the
\* winning tile completes at an open end.
C5_PinfuExact ==
    pc = "done" /\ ~HasLimitHand(yaku) =>
        (HasYaku(yaku, "Pinfu") <=>
            /\ options.isMenzen /\ Len(options.melds) = 0
            /\ PinfuShape(hand, winningTile, options.bakaze, options.jikaze))

\* C10: a list that contains a limit hand contains nothing else.
C10_LimitHandsAlone ==
    pc = "done" /\ HasLimitHand(yaku) => \A i \in DOMAIN yaku : yaku[i].han >= YAKUMAN_HAN

\* C10 witness: thirteen orphans declared with riichi on a self-draw, listed
\* as the limit hand alone.
C10_Witness ==
    /\ pc = "done"
    /\ options.isRiichi /\ options.isTsumo /\ options.isMenzen /\ Len(options.melds) = 0
    /\ ~options.isTenhou /\ ~options.isChiihou
    /\ yaku = <<Yaku("Kokushi", YAKUMAN_HAN)>>

\* the decompositions of the concealed tiles into a pair, a set of triplets
\* and the runs that the remaining tiles are forced to form
Decompositions(h, n) ==
    LET c == countTiles(h)
    IN  IF Len(h) # 3 * n + 2 THEN {}
        ELSE UNION {
            LET c2 == dec(c, p, 2)
            IN  {[pair |-> p, trips |-> T,
                  rest |-> [t \in DOMAIN c2 |-> IF t \in T THEN c2[t] - 3 ELSE c2[t]]] :
                    T \in {U \in SUBSET {t \in DOMAIN c2 : c2[t] >= 3} :
                             RunsOnly([t \in DOMAIN c2 |->
                                          IF t \in U THEN c2[t] - 3 ELSE c2[t]])}}
            : p \in {q \in DOMAIN c : c[q] >= 2} }

\* the groups of a decomposition that the winning tile can complete:
\* <<"pair">>, <<"triplet">> or <<"run", first rank, suit>>
Placements(d, wt) ==
    LET suit == parseTile(wt)[2]
    IN  (IF d.pair = wt THEN {<<"pair">>} ELSE {})
        \cup (IF wt \in d.trips THEN {<<"triplet">>} ELSE {})
        \cup {<<"run", i, suit>> :
                i \in {j \in 1..7 :
                         /\ suit # 0
                         /\ RunStarts(d.rest, suit)[j] > 0
                         /\ wt \in {mkTile(j, suit), mkTile(j + 1, suit), mkTile(j + 2, suit)}}}

IsOpenWait(pl, wt) == pl[1] = "triplet" \/ (pl[1] = "run" /\ OpenEnd(wt, pl[2], pl[3]))

TerminalOrHonor(t) == t \in YAOCHUHAI

\* 4 for a concealed triplet of simples, doubled for terminals and honors,
\* halved when the triplet is completed by a discard
TripletFu(t, concealed) ==
    (IF TerminalOrHonor(t) THEN 8 ELSE 4) \div (IF concealed THEN 1 ELSE 2)

DeclaredMeldFu(meld) ==
    LET yao == TerminalOrHonor(meld.tiles[1])
    IN  CASE meld.type = "chii" -> 0
          [] meld.type = "pon" -> IF yao THEN 4 ELSE 2
          [] meld.type = "minkan" -> IF yao THEN 16 ELSE 8
          [] meld.type = "ankan" -> IF yao THEN 32 ELSE 16

RoundUp10(x) == CHOOSE m \in {10 * k : k \in 0..(x \div 10 + 1)} : m >= x /\ m - 10 < x

\* the fu of one decomposition with the winning tile placed in one group
FuOf(d, pl, wt, isTsumo, isMenzen, bakaze, jikaze, melds) ==
    LET allRuns == d.trips = {} /\ Len(melds) = 0
        pinfuTsumo == /\ isTsumo /\ isMenzen /\ allRuns
                      /\ ~ValueTile(d.pair, bakaze, jikaze)
                      /\ pl[1] = "run" /\ OpenEnd(wt, pl[2], pl[3])
    IN  IF pinfuTsumo THEN 20
        ELSE RoundUp10(
              20
              + (IF isTsumo THEN 2 ELSE 0)
              + (IF ~isTsumo /\ isMenzen THEN 10 ELSE 0)
              + (IF ValueTile(d.pair, bakaze, jikaze) THEN 2 ELSE 0)
              + SumOver(d.trips, [t \in d.trips |->
                    TripletFu(t, isTsumo \/ ~(pl[1] = "triplet" /\ t = wt))])
              + SeqSum([i \in DOMAIN melds |-> DeclaredMeldFu(melds[i])])
              + (IF IsOpenWait(pl, wt) THEN 0 ELSE 2))

SetMax(S) == CHOOSE x \in S : \A y \in S : y <= x

\* the best fu over the decompositions and the groups the winning tile can
\* complete, not below 30 beside a chii, pon or minkan
BestFu(h, wt, isTsumo, isMenzen, bakaze, jikaze, melds) ==
    LET best == SetMax(UNION {
                    {FuOf(d, pl, wt, isTsumo, isMenzen, bakaze, jikaze, melds) :
                        pl \in Placements(d, wt)}
                    : d \in Decompositions(h, 4 - Len(melds))})
    IN  IF (\E i \in DOMAIN melds : isOpenMeld(melds[i])) /\ best < 30 THEN 30 ELSE best

\* C6: for a hand that is not seven pairs, calculateFu is the best fu over
\* the decompositions of the concealed tiles; tiles held three or four times
\* that only form runs add no triplet fu, and a closed wait adds its 2 fu.
C6_FuIsBestDecomposition ==
    pc = "done" /\ ~SevenPairsShape(hand)
       /\ Decompositions(hand, 4 - Len(options.melds)) # {} =>
        fu = BestFu(hand, winningTile, options.isTsumo, options.isMenzen,
                    options.bakaze, options.jikaze, options.melds)

(***************************************************************************)
(* calculateScore(hand, winningTile, options), one action per step of the  *)
(* function.  An error result is [error, nums]: the message and the        *)
(* numbers printed in it; a score result is [han, fu, score, yaku].        *)
(***************************************************************************)
ErrWrongHandSize == "WrongHandSize"     \* `手牌は${n}枚必要です（鳴き${k}回）`
ErrNoWinningTile == "NoWinningTile"     \* '和了牌を選択してください'
ErrNotWinning == "NotWinningShape"      \* '和了形ではありません'
ErrNoYaku == "NoYaku"                   \* '役がありません'

Error(message, nums) == [error |-> message, nums |-> nums]

\* melds.reduce((sum, meld) => sum + meld.tiles.length, 0)
meldTileCount(melds) == SeqSum([i \in DOMAIN melds |-> Len(melds[i].tiles)])

expectedHandSize(melds) == 14 - meldTileCount(melds)

\* [...hand, winningTile]
fullHandOf(h, wt) == h \o <<wt>>

\* a total that counts the yaku instead of adding their han
totalHanOf_Count(list) == Len(list)

totalHanOf(list) == SeqSum([i \in DOMAIN list |-> list[i].han])

\* a seat wind of east makes the winner the dealer
isDealer(opts) == opts.jikaze = "ton"

RECURSIVE RemoveOne(_, _)
RemoveOne(h, t) ==
    IF h = <<>> THEN <<>>
    ELSE IF Head(h) = t THEN Tail(h)
    ELSE <<Head(h)>> \o RemoveOne(Tail(h), t)

IsBaseline(opts) ==
    /\ opts.bakaze = "ton" /\ opts.jikaze = "nan"
    /\ ~opts.isRiichi /\ ~opts.isTsumo

Init ==
    /\ pc = "size"
    /\ \E melds \in MeldChoices :
          /\ options \in ScoreOptions(melds)
          /\ \E full \in CompleteHands(Len(melds)) :
                \* the concealed tiles before the win, and the winning tile
                \/ \E wt \in Range(full) : hand = RemoveOne(full, wt) /\ winningTile = wt
                \/ /\ IsBaseline(options)
                   /\ \* no winning tile selected
                      \/ hand = Tail(full) /\ winningTile = NoTile
                      \* one tile too many, one tile too few
                      \/ hand = full /\ winningTile = Head(full)
                      \/ hand = Tail(Tail(full)) /\ winningTile = Head(full)
                      \* a two-tile hand, with and without a winning tile
                      \/ hand = <<1, 2>> /\ winningTile \in {3, NoTile}
    /\ Idle

CheckHandSize ==
    /\ pc = "size"
    /\ IF Len(hand) # expectedHandSize(options.melds) - 1
       THEN /\ result' = Error(ErrWrongHandSize,
                               <<expectedHandSize(options.melds) - 1, Len(options.melds)>>)
            /\ pc' = "done"
       ELSE /\ pc' = "tile"
            /\ UNCHANGED result
    /\ UNCHANGED <<pageVars, stack, memos, handShapes, hand, winningTile, options, hanArg, fuArg,
                   isOyaArg, win, yaku, fu, score>>

\* a calculateScore without the `if (!winningTile)` return
CheckWinningTile_Unchecked ==
    /\ pc = "tile"
    /\ pc' = "shape"
    /\ UNCHANGED <<pageVars, stack, memos, handShapes, hand, winningTile, options, hanArg, fuArg,
                   isOyaArg, win, yaku, fu,
                   score, result>>

CheckWinningTile ==
    /\ pc = "tile"
    /\ IF winningTile = NoTile
       THEN /\ result' = Error(ErrNoWinningTile, <<>>)
            /\ pc' = "done"
       ELSE /\ pc' = "shape"
            /\ UNCHANGED result
    /\ UNCHANGED <<pageVars, stack, memos, handShapes, hand, winningTile, options, hanArg, fuArg,
                   isOyaArg, win, yaku, fu, score>>

CheckWinningShape ==
    /\ pc = "shape"
    /\ win' = isWinningHand(fullHandOf(hand, winningTile), options.melds)
    /\ IF ~win'
       THEN /\ result' = Error(ErrNotWinning, <<>>)
            /\ pc' = "done"
       ELSE /\ pc' = "yaku"
            /\ UNCHANGED result
    /\ UNCHANGED <<pageVars, stack, memos, handShapes, hand, winningTile, options, hanArg, fuArg,
                   isOyaArg, yaku, fu, score>>

DetectYakuStep ==
    /\ pc = "yaku"
    /\ yaku' = detectYaku(fullHandOf(hand, winningTile), winningTile, options)
    /\ IF Len(yaku') = 0
       THEN /\ result' = Error(ErrNoYaku, <<>>)
            /\ pc' = "done"
       ELSE /\ pc' = "fu"
            /\ UNCHANGED result
    /\ UNCHANGED <<pageVars, stack, memos, handShapes, hand, winningTile, options, hanArg, fuArg,
                   isOyaArg, win, fu, score>>

CalculateFuStep ==
    /\ pc = "fu"
    /\ fu' = calculateFu(fullHandOf(hand, winningTile), winningTile, options.isTsumo,
                         options.isMenzen, options.bakaze, options.jikaze, options.melds)
    /\ pc' = "score"
    /\ UNCHANGED <<pageVars, stack, memos, handShapes, hand, winningTile, options, hanArg, fuArg,
                   isOyaArg, win, yaku, score, result>>

FinalScoreStep ==
    /\ pc = "score"
    /\ score' = calculateFinalScore(totalHanOf(yaku), fu, isDealer(options), options.isTsumo)
    /\ result' = [han |-> totalHanOf(yaku), fu |-> fu, score |-> score', yaku |-> yaku]
    /\ pc' = "done"
    /\ UNCHANGED <<pageVars, stack, memos, handShapes, hand, winningTile, options, hanArg, fuArg,
                   isOyaArg, win, yaku, fu>>

Next ==
    \/ CheckHandSize
    \/ CheckWinningTile
    \/ CheckWinningShape
    \/ DetectYakuStep
    \/ CalculateFuStep
    \/ FinalScoreStep

Spec == Init /\ [][Next]_vars

(***************************************************************************)
(* Properties of calculateScore.                                           *)
(***************************************************************************)
IsErrorResult(r) == DOMAIN r = {"error", "nums"}
IsScoreResult(r) == DOMAIN r = {"han", "fu", "score", "yaku"}

HasKan(melds) == \E i \in DOMAIN melds : melds[i].type \in {"ankan", "minkan"}

\* C2: the wrong-hand-size error is returned exactly when the concealed hand
\* does not hold 13 - 3 x (number of melds) tiles, a kan counting as 3.
C2_KanCountsThree ==
    pc = "done" =>
        ((IsErrorResult(result) /\ result.error = ErrWrongHandSize)
            <=> Len(hand) # 13 - 3 * Len(options.melds))

\* C2: a complete hand beside one kan, 10 concealed tiles with the winning
\* tile apart, is rejected for its size.
C2_Witness ==
    /\ pc = "done"
    /\ Len(options.melds) = 1 /\ HasKan(options.melds)
    /\ Len(hand) = 10 /\ winningTile # NoTile
    /\ StandardShape(sortHand(fullHandOf(hand, winningTile)), 3)
    /\ result = Error(ErrWrongHandSize, <<9, 1>>)

\* C3: the checks run in the order hand size, winning tile, winning shape,
\* yaku; the first one that fails gives the error and no later step has run;
\* every call ends with an error or with a score, a score only when all four
\* checks pass.
C3_ChecksInOrder ==
    pc = "done" =>
        LET full == fullHandOf(hand, winningTile)
        IN  /\ IsErrorResult(result) # IsScoreResult(result)
            /\ IF Len(hand) # 13 - meldTileCount(options.melds)
               THEN /\ result = Error(ErrWrongHandSize,
                                      <<13 - meldTileCount(options.melds),
                                        Len(options.melds)>>)
                    /\ win = FALSE /\ yaku = <<>> /\ fu = 0 /\ score = <<>>
               ELSE IF winningTile = NoTile
               THEN /\ result = Error(ErrNoWinningTile, <<>>)
                    /\ win = FALSE /\ yaku = <<>> /\ fu = 0 /\ score = <<>>
               ELSE IF ~isWinningHand(full, options.melds)
               THEN /\ result = Error(ErrNotWinning, <<>>)
                    /\ yaku = <<>> /\ fu = 0 /\ score = <<>>
               ELSE IF detectYaku(full, winningTile, options) = <<>>
               THEN /\ result = Error(ErrNoYaku, <<>>)
                    /\ fu = 0 /\ score = <<>>
               ELSE IsScoreResult(result)

\* C3 witness: a two-tile hand without a winning tile is reported as a wrong
\* size, and neither the shape check nor the yaku detection has run.
C3_Witness ==
    /\ pc = "done"
    /\ Len(hand) = 2 /\ winningTile = NoTile
    /\ result = Error(ErrWrongHandSize, <<13, 0>>)
    /\ win = FALSE /\ yaku = <<>>

RECURSIVE SumOfHan(_)
SumOfHan(list) == IF list = <<>> THEN 0 ELSE Head(list).han + SumOfHan(Tail(list))

\* C4: a score result lists exactly the yaku of detectYaku, at least one, its
\* han is the sum of their han, its fu is calculateFu and its score is
\* calculateFinalScore for the seat-wind-east dealer; a winning shape without
\* yaku gets the no-yaku error.
C4_ResultFields ==
    pc = "done" =>
        LET full == fullHandOf(hand, winningTile)
            listed == detectYaku(full, winningTile, options)
        IN  /\ IsScoreResult(result) =>
                /\ result.yaku # <<>>
                /\ result.yaku = listed
                /\ result.han = SumOfHan(result.yaku)
                /\ result.han >= 1
                /\ result.fu = calculateFu(full, winningTile, options.isTsumo,
                                           options.isMenzen, options.bakaze,
                                           options.jikaze, options.melds)
                /\ result.score = calculateFinalScore(result.han, result.fu,
                                                      options.jikaze = "ton",
                                                      options.isTsumo)
            /\ (/\ Len(hand) = 13 - meldTileCount(options.melds)
                /\ winningTile # NoTile
                /\ isWinningHand(full, options.melds)
                /\ listed = <<>>)
                => result = Error(ErrNoYaku, <<>>)

\* C4 witness: a score result for the dealer whose yaku are worth more han
\* than there are yaku.
C4_Witness ==
    /\ pc = "done"
    /\ IsScoreResult(result)
    /\ options.jikaze = "ton"
    /\ Len(result.yaku) >= 2
    /\ result.han > Len(result.yaku)

\* C4 witness of the second case: a winning shape without yaku.
NoYakuReached ==
    /\ pc = "done"
    /\ win
    /\ result = Error(ErrNoYaku, <<>>)

(***************************************************************************)
(* Calls of detectYaku on hands of triplets of honors, terminals and green *)
(* tiles, on nine-gates hands and on thirteen orphans, the first triplet   *)
(* concealed or declared as a pon.                                         *)
(***************************************************************************)
\* four triplets and a pair over the tiles of S
TripletHands(S) ==
    {sortHand(Doubled(SetToSeq(T)) \o SetToSeq(T) \o <<p, p>>) :
        T \in {U \in SUBSET S : Cardinality(U) = 4}, p \in S}

HonorTiles == 31..37

\* 1112345678999m and a 14th tile
NineGatesLike ==
    {sortHand(<<1, 1, 1, 2, 3, 4, 5, 6, 7, 8, 9, 9, 9>> \o <<x>>) : x \in {2, 5, 9, 11}}

TripletFamilies ==
    {h \in TripletHands(HonorTiles \cup {1})
        \cup TripletHands({22, 23, 26, 28, HATSU, HAKU})
        \cup TripletHands({1, 9, 11, 19, 21, TON}) :
        \A i \in DOMAIN h : Cardinality({j \in DOMAIN h : h[j] = h[i]}) <= MaxCopies}

\* four tile kinds held three or four times beside runs: 111222333444m with
\* 5m6m, 222333444555m with 6m7m, and 111222333444m with 2m3m
RunTripletHands ==
    { <<1, 1, 1, 2, 2, 2, 3, 3, 3, 4, 4, 4, 5, 6>>,
      <<2, 2, 2, 3, 3, 3, 4, 4, 4, 5, 5, 5, 6, 7>>,
      <<1, 1, 1, 2, 2, 2, 2, 3, 3, 3, 3, 4, 4, 4>> }

LimitLikeHands == TripletFamilies \cup NineGatesLike \cup KokushiLike \cup RunTripletHands

\* (isTenhou, isChiihou) as flags of Options
FirstTurnFlags ==
    {<<FALSE, FALSE, FALSE, FALSE>>, <<FALSE, FALSE, TRUE, FALSE>>,
     <<FALSE, FALSE, FALSE, TRUE>>, <<FALSE, FALSE, TRUE, TRUE>>}

\* the lowest triplet of a hand of triplets, declared as a pon
RECURSIVE DropFirst(_, _)
DropFirst(h, n) == IF n = 0 THEN h ELSE DropFirst(Tail(h), n - 1)

InitLimit ==
    /\ pc = "call"
    /\ \E full \in LimitLikeHands :
          /\ winningTile \in Range(full)
          /\ \/ /\ hand = full
                /\ \E t \in BOOLEAN, f \in FirstTurnFlags :
                      options = Options(t, <<"ton", "nan">>, f, TRUE, NoMelds)
             \/ /\ full \in TripletFamilies
                /\ full[1] = full[3] /\ full[1] # full[4]
                /\ winningTile # full[1]
                /\ hand = DropFirst(full, 3)
                /\ \E t \in BOOLEAN, f \in FirstTurnFlags :
                      options = Options(t, <<"ton", "nan">>, f, FALSE,
                                        <<Meld("pon", SubSeq(full, 1, 3))>>)
    /\ Idle

NextLimit == CallDetectYaku

SpecLimit == InitLimit /\ [][NextLimit]_vars

\* the limit hands in the order of precedence, each with its han and
\* whether the hand and flags satisfy it
LimitOrder(h, wt, opts) ==
    << <<"Tenhou", 13, opts.isTenhou>>,
       <<"Chiihou", 13, opts.isChiihou>>,
       <<"Daisuushii", 26, isDaisuushii(h, opts.melds)>>,
       <<"Kokushi", 13, isKokushi(h, opts.melds)>>,
       <<"Suuankou", 13, isSuuankou(h, wt, opts.isTsumo, opts.melds)>>,
       <<"Daisangen", 13, isDaisangen(h, opts.melds)>>,
       <<"Tsuuiisou", 13, isTsuuiisou(h, opts.melds)>>,
       <<"Ryuuiisou", 13, isRyuuiisou(h, opts.melds)>>,
       <<"Chinroutou", 13, isChinroutou(h, opts.melds)>>,
       <<"ChuurenPoutou", 13, isChuurenPoutou(h, opts.melds)>>,
       <<"Shousuushii", 13, isShousuushii(h, opts.melds)>> >>

\* C11: when the hand and flags satisfy one or more limit hands, the list
\* has exactly one entry, the earliest satisfied in the order tenhou,
\* chiihou, daisuushii, kokushi, suuankou, daisangen, tsuuiisou, ryuuiisou,
\* chinroutou, chuuren poutou, shousuushii.
C11_LimitPrecedence ==
    pc = "done" =>
        LET order == LimitOrder(hand, winningTile, options)
            met == {i \in DOMAIN order : order[i][3]}
        IN  met # {} =>
                LET first == CHOOSE i \in met : \A j \in met : i <= j
                IN  yaku = <<[name |-> order[first][1], han |-> order[first][2]]>>

\* C11 witness: three dragon triplets in an all-honors hand, won on a
\* discard for a triplet, are listed as daisangen alone.
C11_Witness ==
    /\ pc = "done"
    /\ ~options.isTenhou /\ ~options.isChiihou
    /\ isDaisangen(hand, options.melds) /\ isTsuuiisou(hand, options.melds)
    /\ ~isSuuankou(hand, winningTile, options.isTsumo, options.melds)
    /\ yaku = <<Yaku("Daisangen", YAKUMAN_HAN)>>

\* C11 witness of the flag case: tenhou on a thirteen-orphans hand.
TenhouOverKokushi ==
    /\ pc = "done"
    /\ options.isTenhou /\ isKokushi(hand, options.melds)
    /\ yaku = <<Yaku("Tenhou", YAKUMAN_HAN)>>

(***************************************************************************)
(* Concealed quads.                                                        *)
(***************************************************************************)
OnlyAnkan(melds) == melds # <<>> /\ \A i \in DOMAIN melds : melds[i].type = "ankan"

YakuHan(list, name) ==
    LET i == CHOOSE j \in DOMAIN list : list[j].name = name IN list[i].han

\* C12: beside concealed quads only, with isMenzen set, detectYaku lists
\* riichi when isRiichi is set and the closed self-draw when isTsumo is set,
\* and gives the half flush 3 han and the full flush 6 han.
C12_AnkanIsClosed ==
    (pc = "done" /\ OnlyAnkan(options.melds) /\ options.isMenzen
        /\ ~HasLimitHand(yaku)) =>
        /\ options.isRiichi => HasYaku(yaku, "Riichi")
        /\ options.isTsumo => HasYaku(yaku, "MenzenTsumo")
        /\ HasYaku(yaku, "Honitsu") => YakuHan(yaku, "Honitsu") = 3
        /\ HasYaku(yaku, "Chinitsu") => YakuHan(yaku, "Chinitsu") = 6

\* C12: a half flush beside a concealed quad, riichi declared, is listed
\* without riichi and with the half flush at 2 han.
C12_Witness ==
    /\ pc = "done" /\ OnlyAnkan(options.melds) /\ options.isMenzen
    /\ options.isRiichi /\ ~options.isTsumo
    /\ ~HasYaku(yaku, "Riichi")
    /\ HasYaku(yaku, "Honitsu") /\ YakuHan(yaku, "Honitsu") = 2

(***************************************************************************)
(* Calls of buildHandShapes(hand) and isWinningHand(hand) on one 14-tile   *)
(* hand, given in ascending and in descending order.                       *)
(***************************************************************************)
Reverse(h) == [i \in 1..Len(h) |-> h[Len(h) + 1 - i]]

ShapeHands == HandsOfSize(14) \cup SpecialHands \cup LimitLikeHands

InitShapes ==
    /\ pc = "handShapes"
    /\ \E h \in ShapeHands : hand \in {h, Reverse(h)}
    /\ winningTile = NoTile
    /\ options = [melds |-> NoMelds]
    /\ Idle

CallBuildHandShapes ==
    /\ pc = "handShapes"
    /\ handShapes' = buildHandShapes(hand)
    /\ pc' = "call"
    /\ UNCHANGED <<pageVars, stack, memos, hand, winningTile, options, hanArg, fuArg, isOyaArg, win,
                   yaku, fu, score, result>>

NextShapes == CallBuildHandShapes \/ CallIsWinningHand

SpecShapes == InitShapes /\ [][NextShapes]_vars

\* a collection of groups as the number of times each (type, tiles) occurs
GroupBag(groups) ==
    [g \in Range(groups) |-> Cardinality({i \in DOMAIN groups : groups[i] = g})]

\* a returned shape as its pair and its type-tagged groups
ShapeId(shape) ==
    <<shape.pair,
      GroupBag([i \in DOMAIN shape.melds |-> <<shape.melds[i].type, shape.melds[i].tiles>>])>>

\* the runs of the counts r, each as many times as it starts
RunGroups(r) ==
    {<<j, suit>> \in (1..7) \X (1..3) : RunStarts(r, suit)[j] > 0}

\* a decomposition (pair, triplets, runs) as its pair and its type-tagged groups
DecompositionId(d) ==
    LET trips == {<<"koutsu", <<t, t, t>>>> : t \in d.trips}
        runs == {<<"shuntsu", <<mkTile(g[1], g[2]), mkTile(g[1] + 1, g[2]),
                                mkTile(g[1] + 2, g[2])>>>> : g \in RunGroups(d.rest)}
    IN  <<d.pair,
          [g \in trips \cup runs |->
              IF g[1] = "koutsu" THEN 1
              ELSE RunStarts(d.rest, parseTile(g[2][1])[2])[parseTile(g[2][1])[1]]]>>

\* the number of lists generateMeldCombinations returns over all pair choices
RawCandidates(h) ==
    LET c == countTiles(h)
        pairs == {t \in DOMAIN c : c[t] >= 2}
    IN  SumOver(pairs, [t \in pairs |-> Len(generateMeldCombinations(dec(c, t, 2)))])

\* C13: for a 14-tile hand buildHandShapes returns exactly the
\* decompositions into a pair and four runs or triplets, each once, and
\* nothing when there is none.
C13_ExactDecompositions ==
    (pc = "done" /\ Len(hand) = 14) =>
        LET ids == [i \in DOMAIN handShapes |-> ShapeId(handShapes[i])]
            all == {DecompositionId(d) : d \in Decompositions(hand, 4)}
        IN  /\ Range(ids) = all
            /\ \A i, j \in DOMAIN ids : ids[i] = ids[j] => i = j
            /\ (handShapes = <<>>) <=> (Decompositions(hand, 4) = {})
            /\ \A i \in DOMAIN handShapes : Len(handShapes[i].melds) = 4

\* C13 witness: a hand with two or more decompositions, one of them reached
\* by more than one path of the enumeration, each returned once.
C13_Witness ==
    /\ pc = "done" /\ Len(hand) = 14
    /\ Len(handShapes) >= 2
    /\ RawCandidates(hand) > Len(handShapes)

TileCount(s, t) == Cardinality({i \in DOMAIN s : s[i] = t})

RECURSIVE Flatten(_)
Flatten(ss) == IF ss = <<>> THEN <<>> ELSE Head(ss) \o Flatten(Tail(ss))

\* C14: in every shape of buildHandShapes and every pattern of
\* getMentsuPatterns, two copies of the pair plus the tiles of the groups
\* are the tiles of the hand, and every group has three tiles.
C14_TilesPreserved ==
    pc = "done" =>
        LET patterns == getMentsuPatterns(hand)
        IN  /\ \A i \in DOMAIN handShapes :
                LET tiles == <<handShapes[i].pair, handShapes[i].pair>>
                             \o Flatten([k \in DOMAIN handShapes[i].melds |->
                                            handShapes[i].melds[k].tiles])
                IN  /\ \A t \in Range(tiles) \cup Range(hand) :
                          TileCount(tiles, t) = TileCount(hand, t)
                    /\ \A k \in DOMAIN handShapes[i].melds : Len(handShapes[i].melds[k].tiles) = 3
            /\ \A i \in DOMAIN patterns :
                LET tiles == <<patterns[i].jantou, patterns[i].jantou>>
                             \o Flatten(patterns[i].mentsu)
                IN  /\ \A t \in Range(tiles) \cup Range(hand) :
                          TileCount(tiles, t) = TileCount(hand, t)
                    /\ \A k \in DOMAIN patterns[i].mentsu : Len(patterns[i].mentsu[k]) = 3

\* C14 witness: a returned shape that holds a triplet and a run.
C14_Witness ==
    /\ pc = "done"
    /\ \E i \in DOMAIN handShapes :
          /\ \E k \in DOMAIN handShapes[i].melds : handShapes[i].melds[k].type = "koutsu"
          /\ \E k \in DOMAIN handShapes[i].melds : handShapes[i].melds[k].type = "shuntsu"

\* C15: for a 14-tile hand without melds isWinningHand is true exactly when
\* buildHandShapes returns a shape, or seven tiles are held exactly twice,
\* or every terminal and honor is held.
C15_SearchesAgree ==
    (pc = "done" /\ Len(hand) = 14) =>
        (win <=> \/ handShapes # <<>>
                 \/ Cardinality({t \in Range(hand) : TileCount(hand, t) = 2}) = 7
                 \/ \A t \in YAOCHUHAI : TileCount(hand, t) >= 1)

\* C15 witness: a hand whose only pair choice is a tile held three times,
\* accepted by both searches.
C15_Witness ==
    /\ pc = "done" /\ Len(hand) = 14
    /\ win /\ handShapes # <<>>
    /\ \A i \in DOMAIN handShapes : TileCount(hand, handShapes[i].pair) >= 3

\* C15: a hand that neither search accepts.
BothSearchesReject ==
    /\ pc = "done" /\ Len(hand) = 14
    /\ ~win /\ handShapes = <<>>
    /\ \E t \in Range(hand) : TileCount(hand, t) >= 2

FourOfAKindNotSevenPairs ==
    /\ pc = "done" /\ Len(options.melds) = 0
    /\ Cardinality(Range(hand)) = 6
    /\ \E t \in Range(hand) : TileCount(hand, t) = 4
    /\ \A t \in Range(hand) : TileCount(hand, t) \in {2, 4}
    /\ fu # 25

\* C17: calculateFu is never below 30 beside a chii, pon or minkan,
\* whatever isTsumo and isMenzen are.
C17_OpenFloor ==
    (pc = "done" /\ \E i \in DOMAIN options.melds : isOpenMeld(options.melds[i])) =>
        fu >= 30

\* C17: runs with an open wait beside a pon, self-drawn with isMenzen set,
\* get 20 fu.
C17_Witness ==
    /\ pc = "done"
    /\ \E i \in DOMAIN options.melds : isOpenMeld(options.melds[i])
    /\ options.isTsumo /\ options.isMenzen
    /\ fu = 20

\* the tiles after the first k (modulo the length), then those first ones
Rotate(h, k) ==
    LET j == k % Len(h)
    IN  SubSeq(h, j + 1, Len(h)) \o SubSeq(h, 1, j)

\* the tiles at odd positions from the end, then those at even positions
Shuffle(h) ==
    LET r == Reverse(h)
    IN  SelectSeq([i \in DOMAIN r |-> IF i % 2 = 1 THEN r[i] ELSE NoTile], LAMBDA t : t # NoTile)
        \o SelectSeq([i \in DOMAIN r |-> IF i % 2 = 0 THEN r[i] ELSE NoTile], LAMBDA t : t # NoTile)

Reorderings(h) == {Reverse(h), Shuffle(h)} \cup {Rotate(h, k) : k \in {2, 5}}

\* C18: calculateFu gives the same number for the same tiles in another
\* order, with the same winning tile, flags and melds.
C18_OrderInsensitive ==
    pc = "done" =>
        \A h \in Reorderings(hand) :
            calculateFu(h, winningTile, options.isTsumo, options.isMenzen,
                        options.bakaze, options.jikaze, options.melds) = fu

\* C18 witness: a closed self-draw on 1m1m2m2m3m3m4m4m and two runs, a hand
\* with two pair choices of which one gives the 20 fu of pinfu.
C18_Witness ==
    /\ pc = "done"
    /\ Len(options.melds) = 0 /\ options.isTsumo /\ options.isMenzen
    /\ \A t \in 1..4 : TileCount(hand, t) = 2
    /\ winningTile = 1
    /\ Reverse(hand) # hand
    /\ fu = 20

(***************************************************************************)
(* Calls of calculateScore with the options of the score quiz, which carry *)
(* a dealer flag beside the fields of AgariOptions.                        *)
(***************************************************************************)
\* the options object of the quiz: the engine's fields and isOya
buildOptions(base, isOya) == base @@ [isOya |-> isOya]

QuizMelds == {m \in MeldChoices : Len(m) # 1}

\* the seven-pairs-like and thirteen-orphans-like closed hands, and the
\* complete hands beside two or more melds
QuizHands(k) == IF k = 0 THEN SpecialHands ELSE CompleteHands(k)

InitQuiz ==
    /\ pc = "size"
    /\ \E melds \in QuizMelds :
          /\ \E base \in ScoreOptions(melds), o \in BOOLEAN :
                options = buildOptions(base, o)
          /\ \E full \in QuizHands(Len(melds)) : \E wt \in Range(full) :
                hand = RemoveOne(full, wt) /\ winningTile = wt
    /\ Idle

NextQuiz == Next

SpecQuiz == InitQuiz /\ [][NextQuiz]_vars

\* C19: the score of calculateScore is the dealer's when isOya is set and
\* the non-dealer's when it is not, whatever the seat wind.
C19_DealerFlag ==
    (pc = "done" /\ IsScoreResult(result)) =>
        result.score = calculateFinalScore(result.han, result.fu, options.isOya,
                                           options.isTsumo)

\* C19: options with seat wind east and isOya false get the dealer's score.
C19_Witness ==
    /\ pc = "done" /\ IsScoreResult(result)
    /\ options.jikaze = "ton" /\ ~options.isOya
    /\ result.score = calculateFinalScore(result.han, result.fu, TRUE, options.isTsumo)
    /\ result.score # calculateFinalScore(result.han, result.fu, FALSE, options.isTsumo)

\* C19: options with seat wind south and isOya true get the non-dealer's
\* score.
DealerFlagIgnored ==
    /\ pc = "done" /\ IsScoreResult(result)
    /\ options.jikaze = "nan" /\ options.isOya
    /\ result.score = calculateFinalScore(result.han, result.fu, FALSE, options.isTsumo)

(***************************************************************************)
(* Calls of detectYaku with options that carry a double-riichi flag beside *)
(* the fields of AgariOptions.                                             *)
(***************************************************************************)
\* the options object of the tests: the engine's fields and isDoubleRiichi
baseOptions(base, isDoubleRiichi) == base @@ [isDoubleRiichi |-> isDoubleRiichi]

RiichiMelds == {NoMelds, <<MeldCat[1]>>}

\* isRiichi and isIppatsu in every combination, no tenhou or chiihou
RiichiFlags == {<<r, i, FALSE, FALSE>> : r \in BOOLEAN, i \in BOOLEAN}

InitRiichi ==
    /\ pc = "call"
    /\ \E melds \in RiichiMelds :
          /\ hand \in CompleteHands(Len(melds))
          /\ \E f \in RiichiFlags, d \in BOOLEAN :
                options = baseOptions(Options(FALSE, <<"ton", "nan">>, f,
                                              Len(melds) = 0, melds), d)
    /\ winningTile \in Range(hand)
    /\ Idle

NextRiichi == CallDetectYaku

SpecRiichi == InitRiichi /\ [][NextRiichi]_vars

\* C20: detectYaku never lists riichi and double riichi together; on a closed
\* hand it lists double riichi and not riichi when isDoubleRiichi is set, and
\* riichi when only isRiichi is set; it lists ippatsu only beside riichi or
\* double riichi, and none of the three beside an open meld.
C20_RiichiFamily ==
    pc = "done" =>
        LET open == \E i \in DOMAIN options.melds : isOpenMeld(options.melds[i])
            regular == ~open /\ ~HasLimitHand(yaku)
        IN  /\ ~(HasYaku(yaku, "Riichi") /\ HasYaku(yaku, "DoubleRiichi"))
            /\ (regular /\ options.isDoubleRiichi) =>
                  HasYaku(yaku, "DoubleRiichi") /\ ~HasYaku(yaku, "Riichi")
            /\ (regular /\ options.isRiichi /\ ~options.isDoubleRiichi) =>
                  HasYaku(yaku, "Riichi")
            /\ HasYaku(yaku, "Ippatsu") =>
                  HasYaku(yaku, "Riichi") \/ HasYaku(yaku, "DoubleRiichi")
            /\ open => \A n \in {"Riichi", "DoubleRiichi", "Ippatsu"} : ~HasYaku(yaku, n)

\* C20: a closed hand with isRiichi, isDoubleRiichi and isIppatsu set is
\* listed with riichi and ippatsu and without double riichi.
C20_Witness ==
    /\ pc = "done" /\ Len(options.melds) = 0 /\ ~HasLimitHand(yaku)
    /\ options.isRiichi /\ options.isDoubleRiichi /\ options.isIppatsu
    /\ HasYaku(yaku, "Riichi") /\ HasYaku(yaku, "Ippatsu")
    /\ ~HasYaku(yaku, "DoubleRiichi")

\* C20: riichi and ippatsu set beside an open meld, none of them listed.
NoRiichiBesideOpenMeld ==
    /\ pc = "done"
    /\ \E i \in DOMAIN options.melds : isOpenMeld(options.melds[i])
    /\ options.isRiichi /\ options.isIppatsu
    /\ \A n \in {"Riichi", "DoubleRiichi", "Ippatsu"} : ~HasYaku(yaku, n)

(***************************************************************************)
(* Properties of the thirteen-orphans check of detectYaku.                 *)
(***************************************************************************)
\* the thirteen terminal and honor kinds, one of them held twice
ThirteenOrphans(h) == Len(h) = 14 /\ Range(h) = YAOCHUHAI

\* C21: for a thirteen-orphans hand without tenhou or chiihou, detectYaku
\* lists the thirteen-sided wait, above the han of plain thirteen orphans,
\* when the winning tile is the tile held twice, and plain thirteen orphans
\* otherwise.
C21_ThirteenSidedWait ==
    (pc = "done" /\ Len(options.melds) = 0 /\ ThirteenOrphans(hand)
        /\ ~options.isTenhou /\ ~options.isChiihou) =>
        IF TileCount(hand, winningTile) = 2
        THEN /\ HasYaku(yaku, "KokushiJuusanmen")
             /\ YakuHan(yaku, "KokushiJuusanmen") > YAKUMAN_HAN
        ELSE HasYaku(yaku, "Kokushi")

\* C21: thirteen orphans won on the tile held twice are listed as plain
\* thirteen orphans of 13 han.
C21_Witness ==
    /\ pc = "done" /\ Len(options.melds) = 0 /\ ThirteenOrphans(hand)
    /\ ~options.isTenhou /\ ~options.isChiihou
    /\ TileCount(hand, winningTile) = 2
    /\ yaku = <<Yaku("Kokushi", YAKUMAN_HAN)>>

\* C21: thirteen orphans won on a tile held once are listed as plain
\* thirteen orphans.
PlainKokushi ==
    /\ pc = "done" /\ ThirteenOrphans(hand)
    /\ TileCount(hand, winningTile) = 1
    /\ yaku = <<Yaku("Kokushi", YAKUMAN_HAN)>>

(***************************************************************************)
(* Calls of calculateScore on tiles that include the unknown code 'xx'.    *)
(* No tile but 'xx' is held twice, so that 'xx' is never among the tiles   *)
(* that generateMeldCombinations sorts by TILE_ORDER.                      *)
(***************************************************************************)
RunCat == << <<1, 2, 3>>, <<4, 5, 6>>, <<7, 8, 9>>, <<12, 13, 14>>,
             <<15, 16, 17>>, <<22, 23, 24>>, <<26, 27, 28>> >>

RECURSIVE RunsOf(_)
RunsOf(I) ==
    IF I = {} THEN <<>>
    ELSE LET m == CHOOSE i \in I : \A j \in I : i <= j
         IN  RunCat[m] \o RunsOf(I \ {m})

\* four runs and a pair of 'xx', and the thirteen orphans with one 'xx'
UnknownHands ==
    {RunsOf(I) \o <<XX, XX>> : I \in {J \in SUBSET DOMAIN RunCat : Cardinality(J) = 4}}
    \cup {Orphans13 \o <<XX>>}

InitUnknown ==
    /\ pc = "size"
    /\ options \in ScoreOptions(NoMelds)
    /\ \E full \in UnknownHands : \E wt \in Range(full) :
          hand = RemoveOne(full, wt) /\ winningTile = wt
    /\ Idle

NextUnknown == Next

SpecUnknown == InitUnknown /\ [][NextUnknown]_vars

\* C22: calculateScore returns an error when the concealed hand or the
\* winning tile holds a string that is not a tile code.
C22_RejectsUnknown ==
    (pc = "done" /\ (XX \in Range(hand) \/ winningTile = XX)) => IsErrorResult(result)

\* C22: four runs and a pair of 'xx', self-drawn on a tile of a run, get a
\* score.
C22_Witness ==
    /\ pc = "done" /\ TileCount(hand, XX) = 2 /\ winningTile # XX
    /\ options.isTsumo
    /\ IsScoreResult(result)

\* C22: thirteen orphans completed by 'xx' as the winning tile get a score.
UnknownWinningTileScored ==
    /\ pc = "done" /\ winningTile = XX /\ XX \notin Range(hand)
    /\ IsScoreResult(result)

(***************************************************************************)
(* Sequences of calls of the five exported functions on the same hand      *)
(* array, winning tile and options object.  pc names the last call.  The   *)
(* functions work on copies ([...hand], {...counts}) and on locals, and    *)
(* the module has no binding that is written after load.                   *)
(***************************************************************************)
\* the end of calculateScore, from the yaku list and the fu it has computed
scoreResult(yk, f, opts) ==
    IF Len(yk) = 0 THEN Error(ErrNoYaku, <<>>)
    ELSE [han |-> totalHanOf(yk), fu |-> f,
          score |-> calculateFinalScore(totalHanOf(yk), f, isDealer(opts), opts.isTsumo),
          yaku |-> yk]

\* calculateScore from the win check on, on the hand with the winning tile
scoreOfFullHand(fullHand, wt, opts) ==
    IF ~isWinningHand(fullHand, opts.melds) THEN Error(ErrNotWinning, <<>>)
    ELSE scoreResult(detectYaku(fullHand, wt, opts),
                     calculateFu(fullHand, wt, opts.isTsumo, opts.isMenzen,
                                 opts.bakaze, opts.jikaze, opts.melds),
                     opts)

\* calculateScore as one function
calculateScore(h, wt, opts) ==
    IF Len(h) # expectedHandSize(opts.melds) - 1
    THEN Error(ErrWrongHandSize, <<expectedHandSize(opts.melds) - 1, Len(opts.melds)>>)
    ELSE IF wt = NoTile THEN Error(ErrNoWinningTile, <<>>)
    ELSE scoreOfFullHand(fullHandOf(h, wt), wt, opts)

CallMelds == {m \in MeldChoices : Len(m) \in {0, 3}}

\* complete hands, and the same hands without their last tile
CallHands(k) ==
    LET full == IF k = 0 THEN KokushiLike ELSE CompleteHands(k)
    IN  full \cup {SubSeq(h, 1, Len(h) - 1) : h \in full}

InitCalls ==
    /\ pc = "idle"
    /\ \E melds \in CallMelds :
          /\ hand \in CallHands(Len(melds))
          /\ \E t \in BOOLEAN :
                options = Options(t, <<"ton", "nan">>, <<FALSE, FALSE, FALSE, FALSE>>,
                                  Len(melds) = 0, melds)
    /\ winningTile = hand[Len(hand)]
    /\ hanArg \in {1, MaxHan} /\ fuArg = 30 /\ isOyaArg = FALSE
    /\ win = FALSE /\ yaku = <<>> /\ fu = 0 /\ score = <<>> /\ result = <<>>
    /\ handShapes = <<>> /\ memos = <<>> /\ stack = <<>>
    /\ PageIdle

InvokeIsWinningHand ==
    /\ win' = isWinningHand(hand, options.melds)
    /\ pc' = "isWinningHand"
    /\ UNCHANGED <<pageVars, stack, memos, handShapes, hand, winningTile, options, hanArg, fuArg,
                   isOyaArg, yaku, fu,
                   score, result>>

\* a detectYaku whose isTanyao pushes the meld tiles onto the hand itself
InvokeDetectYaku_Aliased ==
    /\ yaku' = detectYaku(hand, winningTile, options)
    /\ hand' = withMeldTiles(hand, options.melds)
    /\ pc' = "detectYaku"
    /\ UNCHANGED <<pageVars, stack, memos, handShapes, winningTile, options, hanArg, fuArg,
                   isOyaArg,
                   win, fu, score,
                   result>>

InvokeDetectYaku ==
    /\ yaku' = detectYaku(hand, winningTile, options)
    /\ pc' = "detectYaku"
    /\ UNCHANGED <<pageVars, stack, memos, handShapes, hand, winningTile, options, hanArg, fuArg,
                   isOyaArg, win, fu,
                   score, result>>

InvokeCalculateFu ==
    /\ fu' = calculateFu(hand, winningTile, options.isTsumo, options.isMenzen,
                         options.bakaze, options.jikaze, options.melds)
    /\ pc' = "calculateFu"
    /\ UNCHANGED <<pageVars, stack, memos, handShapes, hand, winningTile, options, hanArg, fuArg,
                   isOyaArg, win, yaku,
                   score, result>>

InvokeCalculateFinalScore ==
    /\ score' = calculateFinalScore(hanArg, fuArg, isOyaArg, options.isTsumo)
    /\ pc' = "calculateFinalScore"
    /\ UNCHANGED <<pageVars, stack, memos, handShapes, hand, winningTile, options, hanArg, fuArg,
                   isOyaArg, win, yaku,
                   fu, result>>

InvokeCalculateScore ==
    /\ result' = calculateScore(hand, winningTile, options)
    /\ pc' = "calculateScore"
    /\ UNCHANGED <<pageVars, stack, memos, handShapes, hand, winningTile, options, hanArg, fuArg,
                   isOyaArg, win, yaku,
                   fu, score>>

NextCalls ==
    \/ InvokeIsWinningHand
    \/ InvokeDetectYaku
    \/ InvokeCalculateFu
    \/ InvokeCalculateFinalScore
    \/ InvokeCalculateScore

SpecCalls == InitCalls /\ [][NextCalls]_vars

\* the value of the last call is the value of that call on the arguments
ReturnsValueOfCallAlone ==
    /\ pc = "isWinningHand" => win = isWinningHand(hand, options.melds)
    /\ pc = "detectYaku" => yaku = detectYaku(hand, winningTile, options)
    /\ pc = "calculateFu" =>
          fu = calculateFu(hand, winningTile, options.isTsumo, options.isMenzen,
                           options.bakaze, options.jikaze, options.melds)
    /\ pc = "calculateFinalScore" =>
          score = calculateFinalScore(hanArg, fuArg, isOyaArg, options.isTsumo)
    /\ pc = "calculateScore" => result = calculateScore(hand, winningTile, options)

\* a call leaves its arguments and the values returned before as they were
LeavesArguments ==
    /\ hand' = hand /\ winningTile' = winningTile /\ options' = options
    /\ hanArg' = hanArg /\ fuArg' = fuArg /\ isOyaArg' = isOyaArg
    /\ pc' # "isWinningHand" => win' = win
    /\ pc' # "detectYaku" => yaku' = yaku
    /\ pc' # "calculateFu" => fu' = fu
    /\ pc' # "calculateFinalScore" => score' = score
    /\ pc' # "calculateScore" => result' = result

FourTripletsAndPair(h) ==
    /\ Len(h) = 14
    /\ Cardinality({t \in Range(h) : TileCount(h, t) = 3}) = 4
    /\ Cardinality({t \in Range(h) : TileCount(h, t) = 2}) = 1

\* C24: detectYaku lists four concealed triplets only for a hand without
\* melds whose 14 tiles are four triplets and a pair, and on a discard only
\* when the winning tile is not a tile of the triplets.
C24_FourConcealedTriplets ==
    (pc = "done" /\ HasYaku(yaku, "Suuankou")) =>
        /\ Len(options.melds) = 0
        /\ FourTripletsAndPair(hand)
        /\ ~options.isTsumo => TileCount(hand, winningTile) # 3

\* C24: 111222333444m with 5m6m, self-drawn, is listed as four concealed
\* triplets.
C24_Witness ==
    /\ pc = "done"
    /\ hand = <<1, 1, 1, 2, 2, 2, 3, 3, 3, 4, 4, 4, 5, 6>>
    /\ isWinningHand(hand, options.melds)
    /\ options.isTsumo /\ ~options.isTenhou /\ ~options.isChiihou
    /\ yaku = <<Yaku("Suuankou", YAKUMAN_HAN)>>

\* C24: four triplets and a pair won by discard on a tile of a triplet are
\* not listed as four concealed triplets.
NoSuuankouOnTripletDiscard ==
    /\ pc = "done" /\ Len(options.melds) = 0 /\ FourTripletsAndPair(hand)
    /\ ~options.isTsumo /\ TileCount(hand, winningTile) = 3
    /\ ~HasYaku(yaku, "Suuankou")

(***************************************************************************)
(* Properties of the concealed triplets of calculateFu.                    *)
(***************************************************************************)
\* the tiles held three or four times that count as concealed: all of them
\* on a self-draw, all but the winning tile on a discard
ConcealedKinds(h, wt, isTsumo) ==
    {t \in Range(h) : TileCount(h, t) >= 3 /\ (isTsumo \/ t # wt)}

\* C25: of the tiles held three or four times, calculateFu scores as
\* concealed all of them on a self-draw, the winning tile included, and all
\* but the winning tile on a discard.
C25_ConcealedTriplets ==
    pc = "done" =>
        {t \in getConcealedTriplets(hand, winningTile, options.isTsumo) :
            TileCount(hand, t) >= 3}
        = ConcealedKinds(hand, winningTile, options.isTsumo)

\* C25: 1m1m1m 2m3m4m 4p5p6p 7s8s9s and a pair of white dragons, closed and
\* self-drawn on 1m, get 30 fu: 20 + 2 + 2 and 4 for the triplet, where a
\* concealed triplet of 8 fu gives 32, rounded to 40.
C25_Witness ==
    /\ pc = "done"
    /\ hand = <<1, 1, 1, 2, 3, 4, 14, 15, 16, 27, 28, 29, 35, 35>>
    /\ winningTile = 1 /\ options.isTsumo /\ options.isMenzen
    /\ Len(options.melds) = 0
    /\ winningTile \notin getConcealedTriplets(hand, winningTile, options.isTsumo)
    /\ fu = 30

\* C25: on a discard the triplet of the winning tile is scored as open and
\* another triplet as concealed.
OpenTripletOnDiscard ==
    /\ pc = "done" /\ ~options.isTsumo
    /\ TileCount(hand, winningTile) = 3
    /\ \E t \in Range(hand) : t # winningTile /\ TileCount(hand, t) = 3
    /\ getConcealedTriplets(hand, winningTile, FALSE)
         = {t \in Range(hand) : t # winningTile /\ TileCount(hand, t) >= 3}

(***************************************************************************)
(* The 20 fu of calculateFu against the pinfu of detectYaku.               *)
(***************************************************************************)
YakuOfCall == detectYaku(hand, winningTile, options)

\* isMenzen is set exactly when no chii, pon or minkan is declared
MenzenAsMelds ==
    options.isMenzen <=> ~\E i \in DOMAIN options.melds : isOpenMeld(options.melds[i])

\* C26: with isMenzen set exactly when no chii, pon or minkan is declared,
\* calculateFu returns 20 only if detectYaku lists pinfu and the closed
\* self-draw on the same input.
C26_TwentyFuIsPinfuTsumo ==
    (pc = "done" /\ MenzenAsMelds /\ fu = 20) =>
        HasYaku(YakuOfCall, "Pinfu") /\ HasYaku(YakuOfCall, "MenzenTsumo")

\* C26: runs and a pair beside a concealed quad of green dragons, self-drawn
\* with isMenzen set, get 20 fu and neither pinfu nor the closed self-draw.
C26_Witness ==
    /\ pc = "done" /\ MenzenAsMelds
    /\ options.melds = <<KanCat[1]>>
    /\ options.isTsumo /\ options.isMenzen
    /\ fu = 20
    /\ ~HasYaku(YakuOfCall, "Pinfu") /\ ~HasYaku(YakuOfCall, "MenzenTsumo")

\* C26: a closed hand without melds gets 20 fu, pinfu and the closed
\* self-draw.
PinfuTsumoTwenty ==
    /\ pc = "done" /\ Len(options.melds) = 0 /\ fu = 20
    /\ HasYaku(YakuOfCall, "Pinfu") /\ HasYaku(YakuOfCall, "MenzenTsumo")

(***************************************************************************)
(* Seven pairs against the yaku of the pair-plus-four-groups reading.      *)
(***************************************************************************)
\* C27: no list of detectYaku holds both seven pairs and pinfu.
C27_OneReading ==
    pc = "done" => ~(HasYaku(yaku, "Chiitoitsu") /\ HasYaku(yaku, "Pinfu"))

\* C27: 2m2m3m3m4m4m 5p5p6p6p7p7p 8s8s, closed and won on a tile of a run,
\* is listed with seven pairs and with pinfu.
C27_Witness ==
    /\ pc = "done"
    /\ hand = <<2, 2, 3, 3, 4, 4, 15, 15, 16, 16, 17, 17, 28, 28>>
    /\ winningTile = 2 /\ options.isMenzen /\ ~options.isTsumo
    /\ HasYaku(yaku, "Chiitoitsu") /\ HasYaku(yaku, "Pinfu")

\* C27: seven pairs without a reading as runs are listed without pinfu.
SevenPairsAlone ==
    /\ pc = "done" /\ SevenPairsShape(hand)
    /\ HasYaku(yaku, "Chiitoitsu") /\ ~HasYaku(yaku, "Pinfu")

(***************************************************************************)
(* generateMeldCombinations with its memo Map, and buildHandShapes on top  *)
(* of it.  A Map is a set of <<key, value>> pairs with one pair per key.   *)
(***************************************************************************)
\* a key that lists the tiles without their counts
serializeCounts_KeysOnly(counts) ==
    LET keys == sortHand(SetToSeq(DOMAIN counts))
    IN  [i \in DOMAIN keys |-> <<keys[i], 0>>]

\* the keys sorted by TILE_ORDER, each with its count, zero counts included
serializeCounts(counts) ==
    LET keys == sortHand(SetToSeq(DOMAIN counts))
    IN  [i \in DOMAIN keys |-> <<keys[i], counts[keys[i]]>>]

EmptyMemo == {}

memoHas(memo, key) == \E e \in memo : e[1] = key

memoGet(memo, key) == (CHOOSE e \in memo : e[1] = key)[2]

memoSet(memo, key, value) == {e \in memo : e[1] # key} \cup {<<key, value>>}

\* the returned list and the Map after the call
RECURSIVE generateMeldCombinationsWithMemo(_, _)
generateMeldCombinationsWithMemo(counts, memo) ==
    LET present == {t \in DOMAIN counts : counts[t] > 0}
    IN  IF present = {} THEN [results |-> << <<>> >>, memo |-> memo]
        ELSE
            LET memoKey == serializeCounts(counts)
            IN  IF memoHas(memo, memoKey)
                THEN [results |-> memoGet(memo, memoKey), memo |-> memo]
                ELSE
                    LET targetTile == MinTile(present)
                        num == parseTile(targetTile)[1]
                        suit == parseTile(targetTile)[2]
                        tile2 == mkTile(num + 1, suit)
                        tile3 == mkTile(num + 2, suit)
                        hasKoutsu == counts[targetTile] >= 3
                        afterKoutsu ==
                            IF hasKoutsu
                            THEN generateMeldCombinationsWithMemo(dec(counts, targetTile, 3),
                                                                  memo)
                            ELSE [results |-> <<>>, memo |-> memo]
                        hasShuntsu ==
                            /\ num # 0 /\ suit # 0 /\ num <= 7
                            /\ cnt(counts, tile2) > 0 /\ cnt(counts, tile3) > 0
                        afterShuntsu ==
                            IF hasShuntsu
                            THEN generateMeldCombinationsWithMemo(
                                     dec(dec(dec(counts, targetTile, 1), tile2, 1), tile3, 1),
                                     afterKoutsu.memo)
                            ELSE [results |-> <<>>, memo |-> afterKoutsu.memo]
                        results ==
                            PrependAll(Mentsu("koutsu", <<targetTile, targetTile, targetTile>>),
                                       afterKoutsu.results)
                            \o PrependAll(Mentsu("shuntsu", <<targetTile, tile2, tile3>>),
                                          afterShuntsu.results)
                    IN  [results |-> results,
                         memo |-> memoSet(afterShuntsu.memo, memoKey, results)]

\* acc is [shapes, seen, maps]: every pair candidate starts a search with a
\* new Map, kept in maps with the pair tile
RECURSIVE shapesForPairsWithMemo(_, _, _)
shapesForPairsWithMemo(counts, keys, acc) ==
    IF keys = <<>> THEN acc
    ELSE LET tile == Head(keys)
         IN  IF counts[tile] >= 2
             THEN LET search == generateMeldCombinationsWithMemo(dec(counts, tile, 2),
                                                                 EmptyMemo)
                      meldOptions == search.results
                      candidates == [i \in 1..Len(meldOptions) |->
                                        [pair |-> tile, melds |-> meldOptions[i]]]
                      pushed == pushUnseen([shapes |-> acc.shapes, seen |-> acc.seen],
                                           candidates)
                  IN  shapesForPairsWithMemo(counts, Tail(keys),
                          [shapes |-> pushed.shapes, seen |-> pushed.seen,
                           maps |-> Append(acc.maps, [pair |-> tile, memo |-> search.memo])])
             ELSE shapesForPairsWithMemo(counts, Tail(keys), acc)

buildHandShapesWithMemo(h) ==
    shapesForPairsWithMemo(countTiles(h), keysOf(h),
                           [shapes |-> <<>>, seen |-> {}, maps |-> <<>>])

InitMemo ==
    /\ pc = "search"
    /\ \E h \in ShapeHands : hand \in {h, Reverse(h)}
    /\ winningTile = NoTile
    /\ options = [melds |-> NoMelds]
    /\ Idle

SearchHandShapes ==
    /\ pc = "search"
    /\ LET built == buildHandShapesWithMemo(hand)
       IN  handShapes' = built.shapes /\ memos' = built.maps
    /\ pc' = "done"
    /\ UNCHANGED <<pageVars, stack, hand, winningTile, options, hanArg, fuArg, isOyaArg, win, yaku,
                   fu, score, result>>

NextMemo == SearchHandShapes

SpecMemo == InitMemo /\ [][NextMemo]_vars

\* the tile-count map a key was made from
CountsOfKey(key) == [t \in {key[i][1] : i \in DOMAIN key} |->
                        (CHOOSE e \in Range(key) : e[1] = t)[2]]

\* a tile-count map with a zero entry for one more tile
WithZeroEntry(counts) ==
    LET t == CHOOSE u \in AllTiles : u \notin DOMAIN counts
    IN  [u \in DOMAIN counts \cup {t} |-> IF u = t THEN 0 ELSE counts[u]]

\* C28: buildHandShapes with the memo returns what the recursion without a
\* cache returns; every entry of every Map holds the uncached list for its
\* key, under a key made from the tiles left by that search's own pair (never
\* from another pair or hand); and a zero-count entry in the map changes the
\* key but not the list.
C28_MemoTransparent ==
    pc = "done" =>
        /\ handShapes = buildHandShapes(hand)
        /\ \A i \in DOMAIN memos :
              LET start == dec(countTiles(hand), memos[i].pair, 2)
              IN  /\ generateMeldCombinationsWithMemo(start, EmptyMemo).results
                        = generateMeldCombinations(start)
                  /\ generateMeldCombinationsWithMemo(WithZeroEntry(start), EmptyMemo).results
                        = generateMeldCombinations(start)
                  /\ \A e \in memos[i].memo :
                        LET counts == CountsOfKey(e[1])
                        IN  /\ DOMAIN counts = DOMAIN start
                            /\ \A t \in DOMAIN counts : counts[t] <= start[t]
                            /\ e[2] = generateMeldCombinations(counts)

\* C28 witness: a search whose lowest tile is held four times beside the
\* two next tiles of its suit: the tiles left by triplet-then-run and by
\* run-then-triplet are one multiset, reached twice and stored once.
C28_Witness ==
    /\ pc = "done"
    /\ \E i \in DOMAIN memos :
          LET start == dec(countTiles(hand), memos[i].pair, 2)
              t == MinTile({u \in DOMAIN start : start[u] > 0})
              left == dec(dec(dec(start, t, 4), t + 1, 1), t + 2, 1)
          IN  /\ start[t] = 4 /\ t <= 7
              /\ cnt(start, t + 1) > 0 /\ cnt(start, t + 2) > 0
              /\ memoHas(memos[i].memo, serializeCounts(left))
              /\ Len(memoGet(memos[i].memo, serializeCounts(start))) >= 2

(***************************************************************************)
(* The two recursive searches run call by call.  stack holds the frames of *)
(* the calls in progress, the innermost last: the function, its tile-count *)
(* map, its count argument, the loop it is in and the index of the key it  *)
(* called from, and what it has collected.  A call that returns leaves its *)
(* value in a "return" entry, which its caller takes on its next step.     *)
(* keys is Object.keys of the map, the order of its for-in loops: a copy   *)
(* {...tiles} keeps the keys and their order.                              *)
(***************************************************************************)
Frame(fn, keys, tiles, count) ==
    [fn |-> fn, keys |-> keys, tiles |-> tiles, count |-> count, loop |-> "entry",
     i |-> 0, results |-> <<>>]

Returned(value) ==
    [fn |-> "return", keys |-> <<>>, tiles |-> <<>>, count |-> 0, loop |-> "",
     i |-> 0, results |-> value]

\* Object.keys(tileCounts): the tiles at their first occurrence, in order
forInKeys(h) ==
    LET firsts == {i \in DOMAIN h : \A j \in 1..(i - 1) : h[j] # h[i]}
    IN  [k \in 1..Cardinality(firsts) |->
            h[CHOOSE i \in firsts : Cardinality({j \in firsts : j < i}) = k - 1]]

Least(S) == CHOOSE x \in S : \A y \in S : x <= y

\* the frame fn is the innermost call and has not called yet
Active(fn) == stack # <<>> /\ stack[Len(stack)].fn = fn

\* a call made by the frame fn has just returned
Resumed(fn) ==
    /\ Len(stack) >= 2
    /\ stack[Len(stack)].fn = "return"
    /\ stack[Len(stack) - 1].fn = fn

\* serializeCounts(counts): the keys by TILE_ORDER rank, each with its count
memoKeyOf(counts) ==
    [k \in 1..Cardinality(DOMAIN counts) |->
        LET t == CHOOSE u \in DOMAIN counts :
                     Cardinality({v \in DOMAIN counts :
                                     TILE_ORDER[v] < TILE_ORDER[u]}) = k - 1
        IN  <<t, counts[t]>>]

\* the innermost entry of the stack, the one below it, and the stack below each
Innermost == stack[Len(stack)]

Caller == stack[Len(stack) - 1]

BelowInnermost == SubSeq(stack, 1, Len(stack) - 1)

BelowCaller == SubSeq(stack, 1, Len(stack) - 2)

\* remaining[tile] -= 3 that takes two tiles only
koutsuTaken_Two(tiles, tile) == dec(tiles, tile, 2)

\* const remaining = {...tiles}; remaining[tile] -= 3
koutsuTaken(tiles, tile) == dec(tiles, tile, 3)

\* remaining[tile]--; remaining[tile2]--; remaining[tile3]--
shuntsuTaken(tiles, tile) ==
    LET num == parseTile(tile)[1]
        suit == parseTile(tile)[2]
    IN  dec(dec(dec(tiles, tile, 1), mkTile(num + 1, suit), 1), mkTile(num + 2, suit), 1)

\* the condition of the run branch of checkMentsu at one key
shuntsuAt(tiles, tile) ==
    /\ tiles[tile] > 0
    /\ LET num == parseTile(tile)[1]
           suit == parseTile(tile)[2]
       IN  /\ num # 0 /\ num <= 7
           /\ cnt(tiles, mkTile(num + 1, suit)) > 0
           /\ cnt(tiles, mkTile(num + 2, suit)) > 0

\* checkMentsu from where the frame f stands: the count === 0 test on entry,
\* then the triplet loop and the run loop up to the next recursive call, or
\* return false when both loops are over.  base is the stack below f.
checkMentsuFrom(base, f) ==
    IF f.loop = "entry" /\ f.count = 0
    THEN Append(base, Returned(\A t \in DOMAIN f.tiles : f.tiles[t] = 0))
    ELSE
        LET keys == f.keys
            K == IF f.loop = "shuntsu" THEN {}
                 ELSE {i \in DOMAIN keys : i > f.i /\ f.tiles[keys[i]] >= 3}
            S == {i \in DOMAIN keys :
                     /\ i > (IF f.loop = "shuntsu" THEN f.i ELSE 0)
                     /\ shuntsuAt(f.tiles, keys[i])}
        IN  IF K # {}
            THEN base \o << [f EXCEPT !.loop = "koutsu", !.i = Least(K)],
                            Frame("checkMentsu", keys, koutsuTaken(f.tiles, keys[Least(K)]),
                                  f.count - 1) >>
            ELSE IF S # {}
            THEN base \o << [f EXCEPT !.loop = "shuntsu", !.i = Least(S)],
                            Frame("checkMentsu", keys, shuntsuTaken(f.tiles, keys[Least(S)]),
                                  f.count - 1) >>
            ELSE Append(base, Returned(FALSE))

\* generateMeldCombinations after its triplet branch: the run branch, or
\* memo.set and return.  r is [stack, memos].
generateAfterKoutsu(base, f, maps) ==
    LET counts == f.tiles
        targetTile == MinTile({t \in DOMAIN counts : counts[t] > 0})
        num == parseTile(targetTile)[1]
        suit == parseTile(targetTile)[2]
        hasShuntsu ==
            /\ num # 0 /\ suit # 0 /\ num <= 7
            /\ cnt(counts, mkTile(num + 1, suit)) > 0
            /\ cnt(counts, mkTile(num + 2, suit)) > 0
    IN  IF hasShuntsu
        THEN [stack |-> base \o << [f EXCEPT !.loop = "shuntsu"],
                                   Frame("generateMeldCombinations", f.keys,
                                         shuntsuTaken(counts, targetTile), 0) >>,
              memos |-> maps]
        ELSE [stack |-> Append(base, Returned(f.results)),
              memos |-> [maps EXCEPT ![Len(maps)].memo =
                            memoSet(@, memoKeyOf(counts), f.results)]]

\* generateMeldCombinations on entry
generateFromEntry(base, f, maps) ==
    LET counts == f.tiles
        present == {t \in DOMAIN counts : counts[t] > 0}
        memo == maps[Len(maps)].memo
        memoKey == memoKeyOf(counts)
    IN  IF present = {}
        THEN [stack |-> Append(base, Returned(<< <<>> >>)), memos |-> maps]
        ELSE IF memoHas(memo, memoKey)
        THEN [stack |-> Append(base, Returned(memoGet(memo, memoKey))), memos |-> maps]
        ELSE IF counts[MinTile(present)] >= 3
        THEN [stack |-> base \o << [f EXCEPT !.loop = "koutsu"],
                                   Frame("generateMeldCombinations", f.keys,
                                         koutsuTaken(counts, MinTile(present)), 0) >>,
              memos |-> maps]
        ELSE generateAfterKoutsu(base, f, maps)

\* generateMeldCombinations when one of its two recursive calls has returned
generateFromReturn(base, f, value, maps) ==
    LET counts == f.tiles
        targetTile == MinTile({t \in DOMAIN counts : counts[t] > 0})
        num == parseTile(targetTile)[1]
        suit == parseTile(targetTile)[2]
    IN  IF f.loop = "koutsu"
        THEN generateAfterKoutsu(base,
                 [f EXCEPT !.results =
                     PrependAll(Mentsu("koutsu", <<targetTile, targetTile, targetTile>>),
                                value)],
                 maps)
        ELSE LET results ==
                     f.results
                     \o PrependAll(Mentsu("shuntsu",
                                          <<targetTile, mkTile(num + 1, suit),
                                            mkTile(num + 2, suit)>>),
                                   value)
             IN  [stack |-> Append(base, Returned(results)),
                  memos |-> [maps EXCEPT ![Len(maps)].memo =
                                memoSet(@, memoKeyOf(counts), results)]]

\* five melds: requiredMentsu = 4 - 5
FiveMelds == MeldCat \o <<KanCat[2]>>

\* hands of fourteen tiles rich in triplets and runs, and hands of a length
\* no complete hand has
RecursionHands ==
    {h \in HandsOfSize(14) :
        TileCount(h, 1) = 4 /\ TileCount(h, 2) = 4 /\ TileCount(h, 3) >= 2}
    \cup RunTripletHands
    \cup {h \in HandsOfSize(13) : TileCount(h, 1) = 4 /\ TileCount(h, 2) = 4}
    \cup {h \in HandsOfSize(5) : TileCount(h, 1) >= 3}

InitRecursion ==
    /\ \E h \in RecursionHands : hand \in {h, Reverse(h)}
    /\ winningTile = NoTile
    /\ \/ /\ pc = "isWinningHand"
          /\ \E melds \in {NoMelds, SubSeq(MeldCat, 1, 2), FiveMelds} :
                options = [melds |-> melds]
       \/ /\ pc = "buildHandShapes"
          /\ options = <<>>
    /\ Idle

\* isWinningHand up to its call of checkNormalWinningHand
EnterIsWinningHand ==
    /\ pc = "isWinningHand"
    /\ LET tileCounts == countTiles(hand)
           meldCount == Len(options.melds)
           hasMelds == meldCount > 0
           pairs == {t \in DOMAIN tileCounts : tileCounts[t] = 2}
           hasAllYaochuhai == \A t \in YAOCHUHAI : cnt(tileCounts, t) >= 1
       IN  IF ~hasMelds /\ (Cardinality(pairs) = 7 \/ hasAllYaochuhai)
           THEN win' = TRUE /\ pc' = "done" /\ stack' = <<>>
           ELSE /\ stack' = << [Frame("checkNormalWinningHand", forInKeys(hand), tileCounts,
                                      4 - meldCount) EXCEPT !.loop = "pair"] >>
                /\ pc' = "running"
                /\ UNCHANGED win
    /\ UNCHANGED <<pageVars, memos, handShapes, hand, winningTile, options, hanArg, fuArg,
                   isOyaArg, yaku, fu, score, result>>

\* the pair loop of checkNormalWinningHand: the next call of checkMentsu, or
\* the return of isWinningHand
StepCheckNormalWinningHand ==
    /\ pc = "running"
    /\ Active("checkNormalWinningHand") \/ Resumed("checkNormalWinningHand")
    /\ LET f == stack[1]
           keys == f.keys
           found == Resumed("checkNormalWinningHand") /\ Innermost.results
           P == {i \in DOMAIN keys : i > f.i /\ f.tiles[keys[i]] >= 2}
       IN  IF found \/ P = {}
           THEN win' = found /\ pc' = "done" /\ stack' = <<>>
           ELSE /\ stack' = << [f EXCEPT !.i = Least(P)],
                               Frame("checkMentsu", keys, dec(f.tiles, keys[Least(P)], 2),
                                     f.count) >>
                /\ UNCHANGED <<pc, win>>
    /\ UNCHANGED <<pageVars, memos, handShapes, hand, winningTile, options, hanArg, fuArg,
                   isOyaArg, yaku, fu, score, result>>

\* one call of checkMentsu up to its next recursive call or its return
StepCheckMentsu ==
    /\ pc = "running"
    /\ \/ /\ Active("checkMentsu")
          /\ stack' = checkMentsuFrom(BelowInnermost, Innermost)
       \/ /\ Resumed("checkMentsu")
          /\ stack' = IF Innermost.results
                      THEN Append(BelowCaller, Returned(TRUE))
                      ELSE checkMentsuFrom(BelowCaller, Caller)
    /\ UNCHANGED <<pageVars, memos, handShapes, hand, winningTile, options, hanArg, fuArg,
                   isOyaArg, win, yaku, fu, score, result, pc>>

\* buildHandShapes up to its forEach over the keys
EnterBuildHandShapes ==
    /\ pc = "buildHandShapes"
    /\ stack' = << [Frame("buildHandShapes", forInKeys(hand), countTiles(hand), 0)
                       EXCEPT !.loop = "pair",
                              !.results = [shapes |-> <<>>, seen |-> {}]] >>
    /\ memos' = <<>>
    /\ pc' = "running"
    /\ UNCHANGED <<pageVars, handShapes, hand, winningTile, options, hanArg, fuArg,
                   isOyaArg, win, yaku, fu, score, result>>

\* the forEach of buildHandShapes: the shapes of the search that returned
\* are pushed unless seen, then the next pair starts a search with a new
\* Map, or buildHandShapes returns
StepBuildHandShapes ==
    /\ pc = "running"
    /\ Active("buildHandShapes") \/ Resumed("buildHandShapes")
    /\ LET f == stack[1]
           keys == f.keys
           meldOptions == IF Resumed("buildHandShapes") THEN Innermost.results ELSE <<>>
           candidates == [i \in 1..Len(meldOptions) |->
                             [pair |-> keys[f.i], melds |-> meldOptions[i]]]
           acc == pushUnseen(f.results, candidates)
           P == {i \in DOMAIN keys : i > f.i /\ f.tiles[keys[i]] >= 2}
       IN  IF P = {}
           THEN /\ handShapes' = acc.shapes /\ pc' = "done" /\ stack' = <<>>
                /\ UNCHANGED memos
           ELSE /\ stack' = << [f EXCEPT !.i = Least(P), !.results = acc],
                               Frame("generateMeldCombinations", keys,
                                     dec(f.tiles, keys[Least(P)], 2), 0) >>
                /\ memos' = Append(memos, [pair |-> keys[Least(P)], memo |-> EmptyMemo])
                /\ UNCHANGED <<pc, handShapes>>
    /\ UNCHANGED <<pageVars, hand, winningTile, options, hanArg, fuArg,
                   isOyaArg, win, yaku, fu, score, result>>

\* one call of generateMeldCombinations up to its next recursive call or
\* its return
StepGenerateMeldCombinations ==
    /\ pc = "running"
    /\ \/ /\ Active("generateMeldCombinations")
          /\ LET r == generateFromEntry(BelowInnermost, Innermost, memos)
             IN  stack' = r.stack /\ memos' = r.memos
       \/ /\ Resumed("generateMeldCombinations")
          /\ LET r == generateFromReturn(BelowCaller, Caller, Innermost.results, memos)
             IN  stack' = r.stack /\ memos' = r.memos
    /\ UNCHANGED <<pageVars, handShapes, hand, winningTile, options, hanArg, fuArg,
                   isOyaArg, win, yaku, fu, score, result, pc>>

NextRecursion ==
    \/ EnterIsWinningHand
    \/ StepCheckNormalWinningHand
    \/ StepCheckMentsu
    \/ EnterBuildHandShapes
    \/ StepBuildHandShapes
    \/ StepGenerateMeldCombinations

\* a call in progress always takes its next step
SpecRecursion == InitRecursion /\ [][NextRecursion]_vars /\ WF_vars(NextRecursion)

\* tiles of a tile-count map
TilesLeft(tiles) == SumOver(DOMAIN tiles, tiles)

RecursiveFns == {"checkMentsu", "generateMeldCombinations"}

\* every recursive call in progress holds three tiles fewer than its caller
ThreeFewerEachCall ==
    \A j \in 2..Len(stack) :
        stack[j].fn \in RecursiveFns /\ stack[j - 1].fn = stack[j].fn =>
            TilesLeft(stack[j].tiles) = TilesLeft(stack[j - 1].tiles) - 3

\* the recursive calls nested below the first call number at most a third
\* of the tiles of the hand
DepthWithinThird ==
    LET calls == {j \in DOMAIN stack : stack[j].fn \in RecursiveFns}
    IN  Cardinality(calls) - 1 <= Len(hand) \div 3

\* the step-by-step run returns what the functions return
RunReturnsFunctionValue ==
    pc = "done" =>
        /\ stack = <<>>
        /\ IF DOMAIN options = {}
           THEN /\ handShapes = buildHandShapes(hand)
                /\ memos = buildHandShapesWithMemo(hand).maps
           ELSE win = isWinningHand(hand, options.melds)

\* C29: both recursive searches terminate on every input: each recursive
\* call of checkMentsu and of generateMeldCombinations holds exactly three
\* tiles fewer than its caller, the nesting is at most a third of the
\* tiles, and isWinningHand and buildHandShapes (the search of detectYaku
\* and calculateFu) return, also for a hand of a wrong length and for five
\* melds (required group count -1).
C29_Terminates ==
    /\ [](ThreeFewerEachCall /\ DepthWithinThird)
    /\ <>(pc = "done")

\* C29 witness: isWinningHand with five melds has returned false for a
\* hand of fourteen tiles that holds triplets and runs.
C29_Witness ==
    /\ pc = "done" /\ DOMAIN options # {} /\ Len(options.melds) = 5 /\ Len(hand) = 14
    /\ win = FALSE /\ stack = <<>>
    /\ TileCount(hand, 1) >= 3 /\ TileCount(hand, 2) >= 3

\* C29 witness in progress: checkMentsu nested four deep below a negative
\* group count.
C29_DeepNegative ==
    /\ pc = "running" /\ Len(stack) >= 5
    /\ \A j \in 2..5 : stack[j].fn = "checkMentsu" /\ stack[j].count < 0

(***************************************************************************)
(* The calculator page: the tile selection state of the component and its  *)
(* handlers.  hand and winningTile are the page's state of these names     *)
(* (winningTile null is NoTile), pageMelds is its state melds.  The        *)
(* messages of setError are named by what they say.                        *)
(***************************************************************************)
\* 同じ牌は4枚まで選択できます
TileLimitMessage == "TileLimit"

\* ${TILE_DISPLAY[tile]}は1枚まで選択できます
RedLimitMessage == "RedLimit"

\* ${requiredTiles}枚の牌を選択してください
MeldSizeMessage == "MeldSize"

\* チーは… / ポンは… / カンは…で選択してください
MeldShapeMessage == "MeldShape"

\* the tiles the user clicks in hand mode and in meld mode, the meld types
\* chosen and the melds confirmed
HandClickTiles == {5, 31, 32}

MeldClickTiles == {5, 6}

PageTiles == HandClickTiles \cup MeldClickTiles

PageMeldTypes == {"chii", "pon"}

PageModes == {"hand", "meld"}

MaxPageMelds == 1

\* the red five of a suit: RED_TILES
RedTiles == {5} \cap PageTiles

\* getMeldTileCount: a kan counts as three tiles
getMeldTileCount(meldList) ==
    SeqSum([i \in DOMAIN meldList |->
               IF Len(meldList[i].tiles) = 4 THEN 3 ELSE Len(meldList[i].tiles)])

\* a tile pool that leaves the tiles of the confirmed melds out
getAllSelectedTiles_NoMelds(includeWinningTile) ==
    hand \o meldInput
    \o (IF winningTile # NoTile /\ includeWinningTile THEN <<winningTile>> ELSE <<>>)

\* getAllSelectedTiles: includeWinningTile is options?.includeWinningTile !== false
getAllSelectedTiles(includeWinningTile) ==
    hand \o meldTiles(pageMelds) \o meldInput
    \o (IF winningTile # NoTile /\ includeWinningTile THEN <<winningTile>> ELSE <<>>)

\* exceedsTileLimit: true (with the message set) from four copies on
exceedsTileLimit(tile, includeWinningTile) ==
    TileCount(getAllSelectedTiles(includeWinningTile), tile) >= 4

\* isValidMeld of the page
isValidMeld(type, tiles) ==
    IF type = "pon"
    THEN Len(tiles) = 3 /\ \A i \in DOMAIN tiles : tiles[i] = tiles[1]
    ELSE IF type = "minkan" \/ type = "ankan"
    THEN Len(tiles) = 4 /\ \A i \in DOMAIN tiles : tiles[i] = tiles[1]
    ELSE IF type # "chii" THEN FALSE
    ELSE /\ Len(tiles) = 3
         /\ \A i \in DOMAIN tiles : tileLength(tiles[i]) = 2 /\ tiles[i] # XX
         /\ \A i \in DOMAIN tiles : parseTile(tiles[i])[2] = parseTile(tiles[1])[2]
         /\ LET numbers == sortHand(tiles)
            IN  numbers[1] + 1 = numbers[2] /\ numbers[2] + 1 = numbers[3]

\* sortHandWithFlags: the tiles sorted, each with the flag of the first
\* unused copy of it in the unsorted list
sortHandWithFlags(tiles, flags) ==
    LET sortedTiles == sortHand(tiles)
        nth(j) == Cardinality({k \in 1..j : sortedTiles[k] = sortedTiles[j]})
        matchIndex(j) ==
            CHOOSE i \in DOMAIN tiles :
                /\ tiles[i] = sortedTiles[j]
                /\ Cardinality({k \in 1..i : tiles[k] = tiles[i]}) = nth(j)
    IN  [tiles |-> sortedTiles,
         flags |-> [j \in DOMAIN sortedTiles |-> flags[matchIndex(j)]]]

\* hasRedSelection: a red five of the suit is in the hand, the winning
\* tile, the meld input or a meld
hasRedSelection(targetTile) ==
    \/ \E i \in DOMAIN redHandFlags : redHandFlags[i] /\ hand[i] = targetTile
    \/ redWinningFlag /\ winningTile = targetTile
    \/ \E i \in DOMAIN redMeldInputFlags :
          redMeldInputFlags[i] /\ meldInput[i] = targetTile
    \/ \E m \in DOMAIN redMeldFlags : \E i \in DOMAIN redMeldFlags[m] :
          redMeldFlags[m][i] /\ pageMelds[m].tiles[i] = targetTile

\* array.splice(index, 1)
splice(s, index) == [i \in 1..(Len(s) - 1) |-> IF i < index THEN s[i] ELSE s[i + 1]]

\* the state the page does not keep
NoCall ==
    UNCHANGED <<pc, options, hanArg, fuArg, isOyaArg, win, yaku, fu, score, result,
                handShapes, memos, stack>>

InitPage ==
    /\ pc = "page"
    /\ hand = <<>> /\ winningTile = NoTile
    /\ options = <<>>
    /\ Idle

\* addTileToHand and addRedTileToHand past the red check: the winning tile
\* when the hand is full, else one more hand tile
addToHand(tile, isRed) ==
    LET maxHandSize == 14 - getMeldTileCount(pageMelds) - 1
    IN  IF Len(hand) >= maxHandSize
        THEN IF exceedsTileLimit(tile, FALSE)
             THEN /\ error' = TileLimitMessage
                  /\ UNCHANGED <<hand, winningTile, redHandFlags, redWinningFlag>>
             ELSE /\ winningTile' = tile /\ redWinningFlag' = isRed /\ error' = ""
                  /\ UNCHANGED <<hand, redHandFlags>>
        ELSE IF exceedsTileLimit(tile, TRUE)
             THEN /\ error' = TileLimitMessage
                  /\ UNCHANGED <<hand, winningTile, redHandFlags, redWinningFlag>>
             ELSE LET sorted == sortHandWithFlags(Append(hand, tile),
                                                  Append(redHandFlags, isRed))
                  IN  /\ hand' = sorted.tiles /\ redHandFlags' = sorted.flags
                      /\ error' = ""
                      /\ UNCHANGED <<winningTile, redWinningFlag>>

\* addTileToMeld and addRedTileToMeld past the red check
addToMeld(tile, isRed) ==
    LET requiredTiles == IF meldType = "ankan" \/ meldType = "minkan" THEN 4 ELSE 3
    IN  IF Len(meldInput) < requiredTiles
        THEN IF exceedsTileLimit(tile, TRUE)
             THEN /\ error' = TileLimitMessage
                  /\ UNCHANGED <<meldInput, redMeldInputFlags>>
             ELSE /\ meldInput' = Append(meldInput, tile)
                  /\ redMeldInputFlags' = Append(redMeldInputFlags, isRed)
                  /\ error' = ""
        ELSE UNCHANGED <<meldInput, redMeldInputFlags, error>>

\* handleTileSelect(tile) in hand mode
handleTileSelect_Hand(tile) ==
    /\ pc = "page" /\ tileSelectMode = "hand"
    /\ addToHand(tile, FALSE)
    /\ UNCHANGED <<pageMelds, meldInput, meldType, tileSelectMode, redMeldInputFlags,
                   redMeldFlags>>
    /\ NoCall

\* handleTileSelect(tile) in meld mode
handleTileSelect_Meld(tile) ==
    /\ pc = "page" /\ tileSelectMode = "meld"
    /\ addToMeld(tile, FALSE)
    /\ UNCHANGED <<hand, winningTile, pageMelds, meldType, tileSelectMode, redHandFlags,
                   redMeldFlags, redWinningFlag>>
    /\ NoCall

\* handleRedTileSelect(tile, suit) in hand mode
handleRedTileSelect_Hand(tile) ==
    /\ pc = "page" /\ tileSelectMode = "hand"
    /\ IF hasRedSelection(tile)
       THEN /\ error' = RedLimitMessage
            /\ UNCHANGED <<hand, winningTile, redHandFlags, redWinningFlag>>
       ELSE addToHand(tile, TRUE)
    /\ UNCHANGED <<pageMelds, meldInput, meldType, tileSelectMode, redMeldInputFlags,
                   redMeldFlags>>
    /\ NoCall

\* handleRedTileSelect(tile, suit) in meld mode
handleRedTileSelect_Meld(tile) ==
    /\ pc = "page" /\ tileSelectMode = "meld"
    /\ IF hasRedSelection(tile)
       THEN /\ error' = RedLimitMessage
            /\ UNCHANGED <<meldInput, redMeldInputFlags>>
       ELSE addToMeld(tile, TRUE)
    /\ UNCHANGED <<hand, winningTile, pageMelds, meldType, tileSelectMode, redHandFlags,
                   redMeldFlags, redWinningFlag>>
    /\ NoCall

AddTileToHand == \E tile \in HandClickTiles : handleTileSelect_Hand(tile)

AddTileToMeld == \E tile \in MeldClickTiles : handleTileSelect_Meld(tile)

AddRedTileToHand == \E tile \in RedTiles : handleRedTileSelect_Hand(tile)

AddRedTileToMeld == \E tile \in RedTiles : handleRedTileSelect_Meld(tile)

\* the mode buttons
SetTileSelectMode ==
    /\ pc = "page"
    /\ \E mode \in PageModes : tileSelectMode' = mode
    /\ UNCHANGED <<hand, winningTile, pageMelds, meldInput, meldType, error, redHandFlags,
                   redMeldInputFlags, redMeldFlags, redWinningFlag>>
    /\ NoCall

\* the meld type select
SetMeldType ==
    /\ pc = "page"
    /\ \E type \in PageMeldTypes : meldType' = type
    /\ UNCHANGED <<hand, winningTile, pageMelds, meldInput, tileSelectMode, error,
                   redHandFlags, redMeldInputFlags, redMeldFlags, redWinningFlag>>
    /\ NoCall

RemoveTileFromMeld ==
    /\ pc = "page"
    /\ \E index \in DOMAIN meldInput :
          /\ meldInput' = splice(meldInput, index)
          /\ redMeldInputFlags' = splice(redMeldInputFlags, index)
    /\ UNCHANGED <<hand, winningTile, pageMelds, meldType, tileSelectMode, error,
                   redHandFlags, redMeldFlags, redWinningFlag>>
    /\ NoCall

\* the confirm button, enabled while the meld input holds a tile
AddMeld ==
    /\ pc = "page" /\ meldInput # <<>>
    /\ Len(pageMelds) < MaxPageMelds
    /\ LET requiredTiles == IF meldType = "ankan" \/ meldType = "minkan" THEN 4 ELSE 3
       IN  IF Len(meldInput) # requiredTiles
           THEN /\ error' = MeldSizeMessage
                /\ UNCHANGED <<pageMelds, meldInput, redMeldInputFlags, redMeldFlags>>
           ELSE IF ~isValidMeld(meldType, meldInput)
           THEN /\ error' = MeldShapeMessage
                /\ UNCHANGED <<pageMelds, meldInput, redMeldInputFlags, redMeldFlags>>
           ELSE /\ pageMelds' = Append(pageMelds, Meld(meldType, meldInput))
                /\ redMeldFlags' = Append(redMeldFlags, redMeldInputFlags)
                /\ meldInput' = <<>> /\ redMeldInputFlags' = <<>>
                /\ error' = ""
    /\ UNCHANGED <<hand, winningTile, meldType, tileSelectMode, redHandFlags,
                   redWinningFlag>>
    /\ NoCall

\* the clear-input button, enabled while the meld input holds a tile
ClearMeldInput ==
    /\ pc = "page" /\ meldInput # <<>>
    /\ meldInput' = <<>> /\ redMeldInputFlags' = <<>>
    /\ UNCHANGED <<hand, winningTile, pageMelds, meldType, tileSelectMode, error,
                   redHandFlags, redMeldFlags, redWinningFlag>>
    /\ NoCall

RemoveMeld ==
    /\ pc = "page"
    /\ \E index \in DOMAIN pageMelds :
          /\ pageMelds' = splice(pageMelds, index)
          /\ redMeldFlags' = splice(redMeldFlags, index)
    /\ UNCHANGED <<hand, winningTile, meldInput, meldType, tileSelectMode, error,
                   redHandFlags, redMeldInputFlags, redWinningFlag>>
    /\ NoCall

RemoveTileFromHand ==
    /\ pc = "page"
    /\ \E index \in DOMAIN hand :
          /\ hand' = splice(hand, index)
          /\ redHandFlags' = splice(redHandFlags, index)
    /\ UNCHANGED <<winningTile, pageMelds, meldInput, meldType, tileSelectMode, error,
                   redMeldInputFlags, redMeldFlags, redWinningFlag>>
    /\ NoCall

\* a click on the winning tile shown
RemoveWinningTile ==
    /\ pc = "page" /\ winningTile # NoTile
    /\ winningTile' = NoTile /\ redWinningFlag' = FALSE
    /\ UNCHANGED <<hand, pageMelds, meldInput, meldType, tileSelectMode, error,
                   redHandFlags, redMeldInputFlags, redMeldFlags>>
    /\ NoCall

\* clearAll leaves the meld type and the selection mode
ClearAll ==
    /\ pc = "page"
    /\ hand' = <<>> /\ winningTile' = NoTile /\ error' = ""
    /\ pageMelds' = <<>> /\ meldInput' = <<>>
    /\ redHandFlags' = <<>> /\ redMeldInputFlags' = <<>> /\ redMeldFlags' = <<>>
    /\ redWinningFlag' = FALSE
    /\ UNCHANGED <<meldType, tileSelectMode>>
    /\ NoCall

NextPage ==
    \/ AddTileToHand
    \/ AddTileToMeld
    \/ AddRedTileToHand
    \/ AddRedTileToMeld
    \/ SetTileSelectMode
    \/ SetMeldType
    \/ RemoveTileFromMeld
    \/ AddMeld
    \/ ClearMeldInput
    \/ RemoveMeld
    \/ RemoveTileFromHand
    \/ RemoveWinningTile
    \/ ClearAll

SpecPage == InitPage /\ [][NextPage]_vars

\* copies of a tile over the hand, the melds, the meld input and the
\* winning tile
PoolCount(t) ==
    TileCount(hand, t) + TileCount(meldInput, t)
    + SeqSum([m \in DOMAIN pageMelds |-> TileCount(pageMelds[m].tiles, t)])
    + (IF winningTile = t THEN 1 ELSE 0)

AtMostFourCopies == \A t \in PageTiles : PoolCount(t) <= 4

HandIsFull == Len(hand) >= 14 - getMeldTileCount(pageMelds) - 1

\* a click in hand mode would give a fifth copy: as the winning tile in
\* place of the present one when the hand is full, else as a hand tile
FifthCopyInHand(t) ==
    IF HandIsFull
    THEN PoolCount(t) - (IF winningTile = t THEN 1 ELSE 0) + 1 > 4
    ELSE PoolCount(t) + 1 > 4

\* a click in meld mode would give a fifth copy to a meld input that still
\* takes a tile
FifthCopyInMeld(t) ==
    /\ Len(meldInput) < (IF meldType = "ankan" \/ meldType = "minkan" THEN 4 ELSE 3)
    /\ PoolCount(t) + 1 > 4

PoolsUnchanged == UNCHANGED <<hand, pageMelds, meldInput, winningTile>>

\* a step that leaves the four pools alone and shows a limit message, or a
\* step no click takes (a click never shortens the hand or the meld input
\* and never changes the melds, the mode or the meld type), or a step that
\* no click for a fifth copy can take
FifthCopyRejected ==
    \/ PoolsUnchanged /\ error' \in {TileLimitMessage, RedLimitMessage}
    \/ Len(hand') < Len(hand) \/ Len(meldInput') < Len(meldInput)
    \/ Len(pageMelds') # Len(pageMelds)
    \/ tileSelectMode' # tileSelectMode \/ meldType' # meldType
    \/ /\ tileSelectMode = "hand" =>
              \A t \in PageTiles :
                  FifthCopyInHand(t) =>
                      ~(handleTileSelect_Hand(t) \/ handleRedTileSelect_Hand(t))
       /\ tileSelectMode = "meld" =>
              \A t \in PageTiles :
                  FifthCopyInMeld(t) =>
                      ~(handleTileSelect_Meld(t) \/ handleRedTileSelect_Meld(t))

\* C30: on the calculator page, after any sequence of user actions no tile
\* occurs more than four times over hand, confirmed melds, meld input and
\* winning tile, and a click that would make a fifth copy is rejected and
\* leaves these four unchanged.
C30_FourCopies == []AtMostFourCopies /\ [][FifthCopyRejected]_vars

\* C30 witness: a click was rejected with the limit message while the hand
\* is full beside a confirmed meld, and the four fives lie in the hand, the
\* meld input and the winning tile.
C30_Witness ==
    /\ pc = "page" /\ error = TileLimitMessage
    /\ HandIsFull /\ pageMelds # <<>>
    /\ winningTile = 5 /\ TileCount(meldInput, 5) >= 1 /\ TileCount(hand, 5) >= 1
    /\ PoolCount(5) = 4

\* C30 witness: the four fives lie in a confirmed meld and the hand.
C30_MeldAndHand ==
    /\ pc = "page" /\ error = TileLimitMessage
    /\ pageMelds # <<>> /\ TileCount(meldTiles(pageMelds), 5) = 3
    /\ TileCount(hand, 5) = 1

====
